--------------------------- MODULE ContractsProofs ---------------------------
(***************************************************************************)
(* Proofs about the contracts: the negotiation of a project, the           *)
(* conditional tokens with the Dai behind them, and the escrow that funds  *)
(* a project with them.                                                    *)
(***************************************************************************)
EXTENDS Negotiation, Escrow, SumTheorems, SequenceTheorems

-----------------------------------------------------------------------------
(***************************************************************************)
(* Proofs about Negotiation: at most one bid of a project is accepted and  *)
(* the agreement is frozen from then on, for any number of accounts, names *)
(* and terms.  approveBidderTerms has no guard of its own against a second *)
(* approval; the invariant that carries the proof is that an approved      *)
(* project's name is taken in HolderFactory, whose require then fails.     *)
(* With it, the contracts of an approved project are the agreed ones and   *)
(* lookups by name find them (NegotiationConsistent).                      *)
(***************************************************************************)

\* An approved project's name is taken in HolderFactory.
NameTaken ==
  \A i \in 1..Len(projects) :
    projects[i].ownerApproval => nameToHolderIndex[projects[i].projectName] # 0

\* The inductive invariant.
NegotiationInv == TypeOK /\ OneWinner /\ NameTaken

\* Every tracker's name is a name.
LEMMA TrackerNames ==
  ASSUME TypeOK, NEW j \in 1..Len(projects)
  PROVE  projects[j].projectName \in Name
  <1>1. projects[j] \in Tracker
    BY DEF TypeOK
  <1> QED
    BY <1>1 DEF Tracker

\* The constructor builds a tracker, with no proposal approved.
LEMMA NewTrackerType ==
  ASSUME NEW owner \in Party, NEW name \in Name, NEW symbol \in Symbol,
         NEW timelines \in Timelines, NEW budgets \in Budgets
  PROVE  NewTracker(owner, name, symbol, timelines, budgets) \in Tracker
  <1>1. <<>> \in Seq(Party)
    OBVIOUS
  <1> QED
    BY <1>1 DEF NewTracker, Tracker

\* A deployment appends one tracker and changes no other.
LEMMA DeployProjects ==
  ASSUME TypeOK, NEW owner \in Party, NEW name \in Name, NEW symbol \in Symbol,
         NEW timelines \in Timelines, NEW budgets \in Budgets,
         DeployNewProject(owner, name, symbol, timelines, budgets)
  PROVE  /\ projects' \in Seq(Tracker)
         /\ Len(projects') = Len(projects) + 1
         /\ \A i \in 1..Len(projects) : projects'[i] = projects[i]
         /\ projects'[Len(projects) + 1]
              = NewTracker(owner, name, symbol, timelines, budgets)
  <1> DEFINE t == NewTracker(owner, name, symbol, timelines, budgets)
  <1>1. t \in Tracker
    BY NewTrackerType
  <1>2. projects' = Append(projects, t)
    BY DEF DeployNewProject
  <1>3. projects \in Seq(Tracker)
    BY DEF TypeOK
  <1> HIDE DEF t
  <1>4. /\ projects' \in Seq(Tracker)
        /\ Len(projects') = Len(projects) + 1
        /\ \A i \in 1..Len(projects) : projects'[i] = projects[i]
        /\ projects'[Len(projects) + 1] = t
    BY <1>1, <1>2, <1>3
  <1> QED
    BY <1>4 DEF t

\* A bid changes its own tracker only, which was not approved and stays so.
LEMMA BidProjects ==
  ASSUME TypeOK, NEW i \in 1..Len(projects), NEW a \in Party,
         NEW t \in Timelines, NEW b \in Budgets, NewBidderTerms(i, a, t, b)
  PROVE  /\ projects' \in Seq(Tracker)
         /\ Len(projects') = Len(projects)
         /\ \A j \in 1..Len(projects) : j # i => projects'[j] = projects[j]
         /\ ~projects[i].ownerApproval /\ ~projects'[i].ownerApproval
         /\ projects'[i].projectName = projects[i].projectName
         /\ \A c \in Party :
              projects'[i].BidderProposalStatus[c]
                => projects[i].BidderProposalStatus[c]
  <1> DEFINE p == projects[i]
  <1> DEFINE q == [p EXCEPT !.BidderToTimeline[a] = t, !.BidderToBudgets[a] = b,
                            !.BidderProposalStatus[a] = FALSE,
                            !.all_bidders = Append(@, a)]
  <1>1. projects \in Seq(Tracker) /\ p \in Tracker
    BY DEF TypeOK
  <1>2. projects' = [projects EXCEPT ![i] = q]
    BY <1>1 DEF NewBidderTerms, Tracker
  <1>3. Append(p.all_bidders, a) \in Seq(Party)
    BY <1>1 DEF Tracker
  <1>4. q \in Tracker
    BY <1>1, <1>3 DEF Tracker
  <1>5. /\ q.ownerApproval = p.ownerApproval /\ q.projectName = p.projectName
        /\ \A c \in Party : q.BidderProposalStatus[c] => p.BidderProposalStatus[c]
    BY <1>1 DEF Tracker
  <1>6. ~p.ownerApproval
    BY DEF NewBidderTerms
  <1> HIDE DEF p, q
  <1>7. /\ projects' \in Seq(Tracker) /\ Len(projects') = Len(projects)
        /\ \A j \in 1..Len(projects) : j # i => projects'[j] = projects[j]
        /\ projects'[i] = q
    BY <1>1, <1>2, <1>4
  <1> QED
    BY <1>5, <1>6, <1>7 DEF p

\* An approval changes its own tracker only, and marks the chosen bidder.
LEMMA ApproveProjects ==
  ASSUME TypeOK, NEW i \in 1..Len(projects), NEW sender \in Party,
         NEW bidder \in Party, NEW auditor \in Auditors,
         ApproveBidderTerms(i, sender, bidder, auditor)
  PROVE  /\ projects' \in Seq(Tracker)
         /\ Len(projects') = Len(projects)
         /\ \A j \in 1..Len(projects) : j # i => projects'[j] = projects[j]
         /\ projects'[i].ownerApproval
         /\ projects'[i].winningBidder = bidder
         /\ projects'[i].projectName = projects[i].projectName
         /\ projects'[i].owner = projects[i].owner
         /\ projects'[i].symbol = projects[i].symbol
         /\ projects'[i].budgetsOwner = projects[i].BidderToBudgets[sender]
         /\ projects'[i].timelinesOwner = projects[i].BidderToTimeline[sender]
         /\ \A c \in Party :
              projects'[i].BidderProposalStatus[c]
                <=> projects[i].BidderProposalStatus[c] \/ c = bidder
  <1> DEFINE p == projects[i]
  <1> DEFINE q == [p EXCEPT !.ownerApproval = TRUE,
                            !.BidderProposalStatus[bidder] = TRUE,
                            !.winningBidder = bidder,
                            !.budgetsOwner = p.BidderToBudgets[sender],
                            !.timelinesOwner = p.BidderToTimeline[sender]]
  <1>1. projects \in Seq(Tracker) /\ p \in Tracker
    BY DEF TypeOK
  <1>2. projects' = [projects EXCEPT ![i] = q]
    BY <1>1 DEF ApproveBidderTerms, Tracker
  <1>3. q \in Tracker
    BY <1>1 DEF Tracker
  <1>4. /\ q.ownerApproval /\ q.winningBidder = bidder
        /\ q.projectName = p.projectName /\ q.owner = p.owner /\ q.symbol = p.symbol
        /\ q.budgetsOwner = p.BidderToBudgets[sender]
        /\ q.timelinesOwner = p.BidderToTimeline[sender]
        /\ \A c \in Party :
             q.BidderProposalStatus[c] <=> p.BidderProposalStatus[c] \/ c = bidder
    BY <1>1 DEF Tracker
  <1> HIDE DEF p, q
  <1>5. /\ projects' \in Seq(Tracker) /\ Len(projects') = Len(projects)
        /\ \A j \in 1..Len(projects) : j # i => projects'[j] = projects[j]
        /\ projects'[i] = q
    BY <1>1, <1>2, <1>3
  <1> QED
    BY <1>4, <1>5 DEF p

\* HolderFactory: the deployed record is an escrow, and no taken name is freed.
LEMMA HolderFactoryStep ==
  ASSUME TypeOK, NEW n \in Name, NEW owner \in Party, NEW bidder \in Party,
         NEW auditor \in Auditors, NEW b \in Budgets \cup {NoTerms},
         NEW t \in Timelines \cup {NoTerms},
         DeployNewHolder(n, owner, bidder, auditor, b, t)
  PROVE  /\ holders' \in Seq(HolderContract)
         /\ nameToHolderIndex' \in [Name -> Nat]
         /\ nameToHolderIndex'[n] # 0
         /\ \A m \in Name : nameToHolderIndex[m] # 0 => nameToHolderIndex'[m] # 0
  <1> DEFINE h == [projectName |-> n, owner |-> owner, bidder |-> bidder,
                   auditor |-> auditor, budgets |-> b, timelines |-> t]
  <1>1. h \in HolderContract
    BY DEF HolderContract
  <1>2. holders' = Append(holders, h)
    BY DEF DeployNewHolder
  <1>3. holders \in Seq(HolderContract) /\ nameToHolderIndex \in [Name -> Nat]
    BY DEF TypeOK
  <1>4. Len(holders) + 1 \in Nat \ {0}
    BY <1>3
  <1>5. nameToHolderIndex' = [nameToHolderIndex EXCEPT ![n] = Len(holders) + 1]
    BY DEF DeployNewHolder
  <1> HIDE DEF h
  <1>6. holders' \in Seq(HolderContract)
    BY <1>1, <1>2, <1>3
  <1> QED
    BY <1>3, <1>4, <1>5, <1>6

\* TokenFactory: the deployed record is a token.
LEMMA TokenFactoryStep ==
  ASSUME TypeOK, NEW n \in Name, NEW s \in Symbol, NEW owner \in Party,
         NEW bidder \in Party, NEW auditor \in Auditors,
         DeployNewToken(n, s, owner, bidder, auditor)
  PROVE  /\ tokens' \in Seq(SecurityToken)
         /\ nameToTokenIndex' \in [Name -> Nat]
         /\ symbolToTokenIndex' \in [Symbol -> Nat]
  <1> DEFINE k == [projectName |-> n, projectSymbol |-> s, owner |-> owner,
                   bidder |-> bidder, auditor |-> auditor]
  <1>1. k \in SecurityToken
    BY DEF SecurityToken
  <1>2. tokens' = Append(tokens, k)
    BY DEF DeployNewToken
  <1>3. tokens \in Seq(SecurityToken)
    BY DEF TypeOK
  <1> HIDE DEF k
  <1>4. tokens' \in Seq(SecurityToken)
    BY <1>1, <1>2, <1>3
  <1>5. Len(tokens) + 1 \in Nat
    BY <1>3
  <1> QED
    BY <1>4, <1>5 DEF DeployNewToken, TypeOK

\* Every transaction preserves the inductive invariant.
LEMMA NegotiationStep == NegotiationInv /\ [Next]_vars => NegotiationInv'
  <1> SUFFICES ASSUME NegotiationInv, [Next]_vars PROVE NegotiationInv'
    OBVIOUS
  <1> USE DEF NegotiationInv
  <1>1. CASE Deploy
    <2>1. PICK owner \in Party, n \in Name, s \in Symbol, t \in Timelines, b \in Budgets :
             DeployNewProject(owner, n, s, t, b)
      BY <1>1 DEF Deploy
    <2> DEFINE k == NewTracker(owner, n, s, t, b)
    <2>2. /\ projects' \in Seq(Tracker)
          /\ Len(projects') = Len(projects) + 1
          /\ \A i \in 1..Len(projects) : projects'[i] = projects[i]
          /\ projects'[Len(projects) + 1] = k
      BY <2>1, DeployProjects
    <2>3. UNCHANGED <<holders, nameToHolderIndex, tokens, nameToTokenIndex, symbolToTokenIndex>>
      BY <2>1 DEF DeployNewProject
    <2>4. nameToProjectIndex' \in [Name -> Nat]
      BY <2>1 DEF DeployNewProject, TypeOK
    <2>5. TypeOK'
      BY <2>2, <2>3, <2>4 DEF TypeOK
    <2>6. /\ ~k.ownerApproval
          /\ \A a \in Party : ~k.BidderProposalStatus[a]
      BY DEF NewTracker
    <2>7. Len(projects) \in Nat
      BY DEF TypeOK
    <2> HIDE DEF k
    <2>8. \A i \in 1..Len(projects') : i \in 1..Len(projects) \/ i = Len(projects) + 1
      BY <2>2, <2>7
    <2>9. OneWinner'
      BY <2>2, <2>6, <2>8 DEF OneWinner
    <2>10. NameTaken'
      BY <2>2, <2>3, <2>6, <2>8 DEF NameTaken
    <2> QED
      BY <2>5, <2>9, <2>10
  <1>2. CASE Bid
    <2>1. PICK i \in 1..Len(projects), a \in Party, t \in Timelines, b \in Budgets :
             NewBidderTerms(i, a, t, b)
      BY <1>2 DEF Bid
    <2>2. /\ projects' \in Seq(Tracker)
          /\ Len(projects') = Len(projects)
          /\ \A j \in 1..Len(projects) : j # i => projects'[j] = projects[j]
          /\ ~projects[i].ownerApproval /\ ~projects'[i].ownerApproval
          /\ projects'[i].projectName = projects[i].projectName
          /\ \A c \in Party :
               projects'[i].BidderProposalStatus[c] => projects[i].BidderProposalStatus[c]
      BY <2>1, BidProjects
    <2>3. UNCHANGED <<nameToProjectIndex, holders, nameToHolderIndex,
                      tokens, nameToTokenIndex, symbolToTokenIndex>>
      BY <2>1 DEF NewBidderTerms
    <2>4. TypeOK'
      BY <2>2, <2>3 DEF TypeOK
    <2>5. OneWinner'
      BY <2>2 DEF OneWinner
    <2>6. NameTaken'
      BY <2>2, <2>3 DEF NameTaken
    <2> QED
      BY <2>4, <2>5, <2>6
  <1>3. CASE ApproveBid
    <2>1. PICK i \in 1..Len(projects), sender \in Party, bidder \in Party,
               auditor \in Auditors : ApproveBidderTerms(i, sender, bidder, auditor)
      BY <1>3 DEF ApproveBid
    <2> DEFINE p == projects[i]
    <2>2. p \in Tracker
      BY DEF TypeOK
    <2>3. /\ p.projectName \in Name /\ p.owner \in Party /\ p.symbol \in Symbol
          /\ p.BidderToBudgets[sender] \in Budgets \cup {NoTerms}
          /\ p.BidderToTimeline[sender] \in Timelines \cup {NoTerms}
      BY <2>2 DEF Tracker
    <2>4. /\ DeployNewHolder(p.projectName, p.owner, bidder, auditor,
                             p.BidderToBudgets[sender], p.BidderToTimeline[sender])
          /\ DeployNewToken(p.projectName, p.symbol, p.owner, bidder, auditor)
          /\ UNCHANGED nameToProjectIndex
      BY <2>1 DEF ApproveBidderTerms
    <2>5. /\ projects' \in Seq(Tracker)
          /\ Len(projects') = Len(projects)
          /\ \A j \in 1..Len(projects) : j # i => projects'[j] = projects[j]
          /\ projects'[i].ownerApproval
          /\ projects'[i].winningBidder = bidder
          /\ projects'[i].projectName = projects[i].projectName
          /\ \A c \in Party :
               projects'[i].BidderProposalStatus[c]
                 <=> projects[i].BidderProposalStatus[c] \/ c = bidder
      BY <2>1, ApproveProjects
    <2>6. /\ holders' \in Seq(HolderContract)
          /\ nameToHolderIndex' \in [Name -> Nat]
          /\ nameToHolderIndex'[p.projectName] # 0
          /\ \A m \in Name : nameToHolderIndex[m] # 0 => nameToHolderIndex'[m] # 0
      <3> HIDE DEF p
      <3> QED BY <2>3, <2>4, HolderFactoryStep
    <2>7. /\ tokens' \in Seq(SecurityToken)
          /\ nameToTokenIndex' \in [Name -> Nat]
          /\ symbolToTokenIndex' \in [Symbol -> Nat]
      <3> HIDE DEF p
      <3> QED BY <2>3, <2>4, TokenFactoryStep
    <2>8. TypeOK'
      BY <2>4, <2>5, <2>6, <2>7 DEF TypeOK
    <2>9. ~p.ownerApproval
      BY <2>4 DEF NameTaken, DeployNewHolder
    <2>10. OneWinner'
      BY <2>5, <2>9 DEF OneWinner
    <2>11. \A j \in 1..Len(projects) : projects[j].projectName \in Name
      BY TrackerNames
    <2>12. NameTaken'
      <3> SUFFICES ASSUME NEW j \in 1..Len(projects), projects'[j].ownerApproval
                   PROVE  nameToHolderIndex'[projects'[j].projectName] # 0
        BY <2>5 DEF NameTaken
      <3>1. CASE j = i
        BY <3>1, <2>5, <2>6
      <3>2. CASE j # i
        BY <3>2, <2>5, <2>6, <2>11 DEF NameTaken
      <3> QED
        BY <3>1, <3>2
    <2> QED
      BY <2>8, <2>10, <2>12
  <1>4. CASE DirectHolder
    <2>1. PICK n \in Name, owner \in Party, bidder \in Party, auditor \in Auditors,
               b \in Budgets, t \in Timelines :
             DeployNewHolder(n, owner, bidder, auditor, b, t)
      BY <1>4 DEF DirectHolder
    <2>2. UNCHANGED <<projects, nameToProjectIndex, tokens, nameToTokenIndex, symbolToTokenIndex>>
      BY <1>4 DEF DirectHolder
    <2>3. /\ holders' \in Seq(HolderContract)
          /\ nameToHolderIndex' \in [Name -> Nat]
          /\ \A m \in Name : nameToHolderIndex[m] # 0 => nameToHolderIndex'[m] # 0
      BY <2>1, HolderFactoryStep
    <2>4. TypeOK'
      BY <2>2, <2>3 DEF TypeOK
    <2>5. OneWinner'
      BY <2>2 DEF OneWinner
    <2>6. \A j \in 1..Len(projects) : projects[j].projectName \in Name
      BY TrackerNames
    <2>7. NameTaken'
      BY <2>2, <2>3, <2>6 DEF NameTaken
    <2> QED
      BY <2>4, <2>5, <2>7
  <1>5. CASE DirectToken
    <2>1. PICK n \in Name, s \in Symbol, owner \in Party, bidder \in Party,
               auditor \in Auditors : DeployNewToken(n, s, owner, bidder, auditor)
      BY <1>5 DEF DirectToken
    <2>2. UNCHANGED <<projects, nameToProjectIndex, holders, nameToHolderIndex>>
      BY <1>5 DEF DirectToken
    <2>3. TypeOK'
      BY <2>1, <2>2, TokenFactoryStep DEF TypeOK
    <2> QED
      BY <2>2, <2>3 DEF OneWinner, NameTaken
  <1>6. CASE UNCHANGED vars
    BY <1>6 DEF vars, TypeOK, OneWinner, NameTaken
  <1> QED
    BY <1>1, <1>2, <1>3, <1>4, <1>5, <1>6 DEF Next

\* The inductive invariant holds in every reachable state.
THEOREM NegotiationInductive == Spec => []NegotiationInv
  <1>1. Init => NegotiationInv
    BY DEF Init, NegotiationInv, TypeOK, OneWinner, NameTaken
  <1> QED
    BY <1>1, NegotiationStep, PTL DEF Spec

\* At most one bid of a project is ever accepted (ProjectNegotiationTracker
\* .approveBidderTerms with HolderFactory.deployNewHolder).
THEOREM AtMostOneWinner == Spec => []OneWinner
  <1>1. NegotiationInv => OneWinner
    BY DEF NegotiationInv
  <1> QED
    BY <1>1, NegotiationInductive, PTL

\* Once approved, a tracker's storage never changes: newBidderTerms refuses by
\* its own require, approveBidderTerms because the name is taken.
THEOREM ApprovedAgreementFrozen == Spec => AgreementFrozen
  <1> DEFINE Frozen == \A i \in 1..Len(projects) :
                         projects[i].ownerApproval => projects'[i] = projects[i]
  <1>1. NegotiationInv /\ [Next]_vars => [Frozen]_vars
    <2> SUFFICES ASSUME NegotiationInv, Next PROVE Frozen
      OBVIOUS
    <2> USE DEF NegotiationInv
    <2>1. CASE Deploy
      BY <2>1, DeployProjects DEF Deploy
    <2>2. CASE Bid
      BY <2>2, BidProjects DEF Bid
    <2>3. CASE ApproveBid
      <3>1. PICK i \in 1..Len(projects), sender \in Party, bidder \in Party,
                 auditor \in Auditors : ApproveBidderTerms(i, sender, bidder, auditor)
        BY <2>3 DEF ApproveBid
      <3>2. \A j \in 1..Len(projects) : j # i => projects'[j] = projects[j]
        BY <3>1, ApproveProjects
      <3>3. ~projects[i].ownerApproval
        BY <3>1 DEF ApproveBidderTerms, DeployNewHolder, NameTaken
      <3> QED
        BY <3>2, <3>3
    <2>4. CASE DirectHolder \/ DirectToken
      BY <2>4 DEF DirectHolder, DirectToken
    <2> QED
      BY <2>1, <2>2, <2>3, <2>4 DEF Next
  <1> QED
    BY <1>1, NegotiationInductive, PTL DEF Spec, AgreementFrozen

-----------------------------------------------------------------------------
(* The factories' lookups, and what an approval has deployed.  To go on      *)
(* finding a contract after another one is appended, an index that is set    *)
(* must lie within its array.                                                *)

\* ProjectTrackerFactory: names and array entries correspond one to one.
ProjectLookups ==
  /\ \A n \in Name : nameToProjectIndex[n] # 0 =>
       /\ nameToProjectIndex[n] \in 1..Len(projects)
       /\ projects[nameToProjectIndex[n]].projectName = n
  /\ \A i \in 1..Len(projects) : nameToProjectIndex[projects[i].projectName] = i

\* HolderFactory: the same.
HolderLookups ==
  /\ \A n \in Name : nameToHolderIndex[n] # 0 =>
       /\ nameToHolderIndex[n] \in 1..Len(holders)
       /\ holders[nameToHolderIndex[n]].projectName = n
  /\ \A i \in 1..Len(holders) : nameToHolderIndex[holders[i].projectName] = i

\* TokenFactory: the same, and a symbol leads to a token of that symbol.
TokenLookups ==
  /\ \A n \in Name : nameToTokenIndex[n] # 0 =>
       /\ nameToTokenIndex[n] \in 1..Len(tokens)
       /\ tokens[nameToTokenIndex[n]].projectName = n
  /\ \A s \in Symbol : symbolToTokenIndex[s] # 0 =>
       /\ symbolToTokenIndex[s] \in 1..Len(tokens)
       /\ tokens[symbolToTokenIndex[s]].projectSymbol = s
  /\ \A i \in 1..Len(tokens) : nameToTokenIndex[tokens[i].projectName] = i

\* The inductive invariant behind NegotiationConsistent.
FactoriesInv ==
  NegotiationInv /\ ProjectLookups /\ HolderLookups /\ TokenLookups /\ AgreementDeployed

\* The agreement of tracker p is deployed, with these arrays and indexes.
AgreementOf(p, hs, hindex, ts, tindex) ==
  LET h == hindex[p.projectName]
      t == tindex[p.projectName] IN
  /\ h \in 1..Len(hs)
  /\ t \in 1..Len(ts)
  /\ hs[h].owner = p.owner /\ hs[h].bidder = p.winningBidder
  /\ hs[h].budgets = p.budgetsOwner /\ hs[h].timelines = p.timelinesOwner
  /\ ts[t].owner = p.owner /\ ts[t].bidder = p.winningBidder
  /\ ts[t].projectSymbol = p.symbol
  /\ ts[t].auditor = hs[h].auditor

\* AgreementDeployed says it of every approved tracker.
LEMMA AgreementsDeployed ==
  AgreementDeployed <=>
    \A i \in 1..Len(projects) : projects[i].ownerApproval =>
      AgreementOf(projects[i], holders, nameToHolderIndex, tokens, nameToTokenIndex)
  BY DEF AgreementDeployed, AgreementOf

\* An agreement stays deployed when the arrays grow and its own index entries
\* stay as they are.
LEMMA AgreementKept ==
  ASSUME NEW p, NEW hs, NEW hindex, NEW ts, NEW tindex,
         NEW hs2, NEW hindex2, NEW ts2, NEW tindex2,
         AgreementOf(p, hs, hindex, ts, tindex),
         Len(hs) \in Nat, Len(hs2) \in Nat, Len(hs) <= Len(hs2),
         Len(ts) \in Nat, Len(ts2) \in Nat, Len(ts) <= Len(ts2),
         \A i \in 1..Len(hs) : hs2[i] = hs[i],
         \A i \in 1..Len(ts) : ts2[i] = ts[i],
         hindex2[p.projectName] = hindex[p.projectName],
         tindex2[p.projectName] = tindex[p.projectName]
  PROVE  AgreementOf(p, hs2, hindex2, ts2, tindex2)
  <1>1. \A i \in 1..Len(hs) : i \in 1..Len(hs2)
    OBVIOUS
  <1>2. \A i \in 1..Len(ts) : i \in 1..Len(ts2)
    OBVIOUS
  <1> QED
    BY <1>1, <1>2 DEF AgreementOf

\* Deploying an escrow adds one to the end of the array and indexes it.
LEMMA HolderAppended ==
  ASSUME TypeOK, HolderLookups, NEW n \in Name, NEW owner, NEW bidder, NEW auditor,
         NEW b, NEW t, DeployNewHolder(n, owner, bidder, auditor, b, t)
  PROVE  /\ Len(holders') = Len(holders) + 1 /\ Len(holders) \in Nat
         /\ \A i \in 1..Len(holders) : holders'[i] = holders[i]
         /\ holders'[Len(holders) + 1] =
              [projectName |-> n, owner |-> owner, bidder |-> bidder,
               auditor |-> auditor, budgets |-> b, timelines |-> t]
         /\ nameToHolderIndex[n] = 0 /\ nameToHolderIndex'[n] = Len(holders) + 1
         /\ \A m \in Name : m # n => nameToHolderIndex'[m] = nameToHolderIndex[m]
         /\ HolderLookups'
  <1> DEFINE h == [projectName |-> n, owner |-> owner, bidder |-> bidder,
                   auditor |-> auditor, budgets |-> b, timelines |-> t]
  <1>1. holders' = Append(holders, h)
    BY DEF DeployNewHolder
  <1>2. h.projectName = n
    OBVIOUS
  <1>3. \A i \in 1..Len(holders) : holders[i].projectName \in Name
    <2>1. \A i \in 1..Len(holders) : holders[i] \in HolderContract
      BY DEF TypeOK
    <2> QED
      BY <2>1 DEF HolderContract
  <1> HIDE DEF h
  <1>4. /\ Len(holders') = Len(holders) + 1 /\ Len(holders) \in Nat
        /\ \A i \in 1..Len(holders) : holders'[i] = holders[i]
        /\ holders'[Len(holders) + 1] = h
    BY <1>1 DEF TypeOK
  <1>5. /\ nameToHolderIndex[n] = 0 /\ nameToHolderIndex'[n] = Len(holders) + 1
        /\ \A m \in Name : m # n => nameToHolderIndex'[m] = nameToHolderIndex[m]
    BY DEF DeployNewHolder, TypeOK
  <1>6. HolderLookups'
    <2>1. ASSUME NEW m \in Name, nameToHolderIndex'[m] # 0
          PROVE  /\ nameToHolderIndex'[m] \in 1..Len(holders')
                 /\ holders'[nameToHolderIndex'[m]].projectName = m
      <3>1. CASE m = n
        BY <3>1, <1>2, <1>4, <1>5
      <3>2. CASE m # n
        BY <3>2, <2>1, <1>4, <1>5 DEF HolderLookups
      <3> QED
        BY <3>1, <3>2
    <2>2. ASSUME NEW i \in 1..Len(holders')
          PROVE  nameToHolderIndex'[holders'[i].projectName] = i
      <3>1. CASE i = Len(holders) + 1
        BY <3>1, <1>2, <1>4, <1>5
      <3>2. CASE i \in 1..Len(holders)
        BY <3>2, <1>3, <1>4, <1>5 DEF HolderLookups
      <3> QED
        BY <3>1, <3>2, <1>4
    <2> QED
      BY <2>1, <2>2 DEF HolderLookups
  <1> QED
    BY <1>4, <1>5, <1>6 DEF h

\* The same for a token, which is indexed by its name and by its symbol.
LEMMA TokenAppended ==
  ASSUME TypeOK, TokenLookups, NEW n \in Name, NEW s \in Symbol, NEW owner,
         NEW bidder, NEW auditor, DeployNewToken(n, s, owner, bidder, auditor)
  PROVE  /\ Len(tokens') = Len(tokens) + 1 /\ Len(tokens) \in Nat
         /\ \A i \in 1..Len(tokens) : tokens'[i] = tokens[i]
         /\ tokens'[Len(tokens) + 1] =
              [projectName |-> n, projectSymbol |-> s, owner |-> owner,
               bidder |-> bidder, auditor |-> auditor]
         /\ nameToTokenIndex[n] = 0 /\ nameToTokenIndex'[n] = Len(tokens) + 1
         /\ \A m \in Name : m # n => nameToTokenIndex'[m] = nameToTokenIndex[m]
         /\ TokenLookups'
  <1> DEFINE k == [projectName |-> n, projectSymbol |-> s, owner |-> owner,
                   bidder |-> bidder, auditor |-> auditor]
  <1>1. tokens' = Append(tokens, k)
    BY DEF DeployNewToken
  <1>2. k.projectName = n /\ k.projectSymbol = s
    OBVIOUS
  <1>3. \A i \in 1..Len(tokens) : tokens[i].projectName \in Name
    <2>1. \A i \in 1..Len(tokens) : tokens[i] \in SecurityToken
      BY DEF TypeOK
    <2> QED
      BY <2>1 DEF SecurityToken
  <1> HIDE DEF k
  <1>4. /\ Len(tokens') = Len(tokens) + 1 /\ Len(tokens) \in Nat
        /\ \A i \in 1..Len(tokens) : tokens'[i] = tokens[i]
        /\ tokens'[Len(tokens) + 1] = k
    BY <1>1 DEF TypeOK
  <1>5. /\ nameToTokenIndex[n] = 0 /\ nameToTokenIndex'[n] = Len(tokens) + 1
        /\ \A m \in Name : m # n => nameToTokenIndex'[m] = nameToTokenIndex[m]
    BY DEF DeployNewToken, TypeOK
  <1>6. /\ symbolToTokenIndex'[s] = Len(tokens) + 1
        /\ \A r \in Symbol : r # s => symbolToTokenIndex'[r] = symbolToTokenIndex[r]
    BY DEF DeployNewToken, TypeOK
  <1>7. TokenLookups'
    <2>1. ASSUME NEW m \in Name, nameToTokenIndex'[m] # 0
          PROVE  /\ nameToTokenIndex'[m] \in 1..Len(tokens')
                 /\ tokens'[nameToTokenIndex'[m]].projectName = m
      <3>1. CASE m = n
        BY <3>1, <1>2, <1>4, <1>5
      <3>2. CASE m # n
        BY <3>2, <2>1, <1>4, <1>5 DEF TokenLookups
      <3> QED
        BY <3>1, <3>2
    <2>2. ASSUME NEW r \in Symbol, symbolToTokenIndex'[r] # 0
          PROVE  /\ symbolToTokenIndex'[r] \in 1..Len(tokens')
                 /\ tokens'[symbolToTokenIndex'[r]].projectSymbol = r
      <3>1. CASE r = s
        BY <3>1, <1>2, <1>4, <1>6
      <3>2. CASE r # s
        BY <3>2, <2>2, <1>4, <1>6 DEF TokenLookups
      <3> QED
        BY <3>1, <3>2
    <2>3. ASSUME NEW i \in 1..Len(tokens')
          PROVE  nameToTokenIndex'[tokens'[i].projectName] = i
      <3>1. CASE i = Len(tokens) + 1
        BY <3>1, <1>2, <1>4, <1>5
      <3>2. CASE i \in 1..Len(tokens)
        BY <3>2, <1>3, <1>4, <1>5 DEF TokenLookups
      <3> QED
        BY <3>1, <3>2, <1>4
    <2> QED
      BY <2>1, <2>2, <2>3 DEF TokenLookups
  <1> QED
    BY <1>4, <1>5, <1>7 DEF k

\* Every transaction preserves the factories' invariant.
LEMMA FactoriesStep == FactoriesInv /\ [Next]_vars => FactoriesInv'
  <1> SUFFICES ASSUME FactoriesInv, [Next]_vars PROVE FactoriesInv'
    OBVIOUS
  <1>a. NegotiationInv /\ TypeOK /\ NegotiationInv'
    BY NegotiationStep DEF FactoriesInv, NegotiationInv
  <1>b. ProjectLookups /\ HolderLookups /\ TokenLookups /\ AgreementDeployed
    BY DEF FactoriesInv
  <1>c. \A j \in 1..Len(projects) : projects[j].projectName \in Name
    BY <1>a, TrackerNames
  <1>d. Len(projects) \in Nat /\ nameToProjectIndex \in [Name -> Nat]
    BY <1>a DEF TypeOK
  <1>1. CASE Deploy
    <2>1. PICK owner \in Party, n \in Name, s \in Symbol, t \in Timelines, b \in Budgets :
             DeployNewProject(owner, n, s, t, b)
      BY <1>1 DEF Deploy
    <2> DEFINE k == NewTracker(owner, n, s, t, b)
    <2>2. /\ Len(projects') = Len(projects) + 1
          /\ \A i \in 1..Len(projects) : projects'[i] = projects[i]
          /\ projects'[Len(projects) + 1] = k
      BY <2>1, <1>a, DeployProjects
    <2>3. UNCHANGED <<holders, nameToHolderIndex, tokens, nameToTokenIndex, symbolToTokenIndex>>
      BY <2>1 DEF DeployNewProject
    <2>4. ~k.ownerApproval /\ k.projectName = n
      BY DEF NewTracker
    <2> HIDE DEF k
    <2>5. /\ nameToProjectIndex[n] = 0 /\ nameToProjectIndex'[n] = Len(projects) + 1
          /\ \A m \in Name : m # n => nameToProjectIndex'[m] = nameToProjectIndex[m]
      BY <2>1, <1>d DEF DeployNewProject
    <2>6. \A i \in 1..Len(projects') : i \in 1..Len(projects) \/ i = Len(projects) + 1
      BY <2>2, <1>d
    <2>7. ProjectLookups'
      <3>1. ASSUME NEW m \in Name, nameToProjectIndex'[m] # 0
            PROVE  /\ nameToProjectIndex'[m] \in 1..Len(projects')
                   /\ projects'[nameToProjectIndex'[m]].projectName = m
        <4>1. CASE m = n
          BY <4>1, <2>2, <2>4, <2>5, <1>d
        <4>2. CASE m # n
          BY <4>2, <3>1, <2>2, <2>5, <1>b, <1>d DEF ProjectLookups
        <4> QED
          BY <4>1, <4>2
      <3>2. ASSUME NEW i \in 1..Len(projects')
            PROVE  nameToProjectIndex'[projects'[i].projectName] = i
        <4>1. CASE i = Len(projects) + 1
          BY <4>1, <2>2, <2>4, <2>5
        <4>2. CASE i \in 1..Len(projects)
          BY <4>2, <2>2, <2>5, <1>b, <1>c DEF ProjectLookups
        <4> QED
          BY <4>1, <4>2, <2>6
      <3> QED
        BY <3>1, <3>2 DEF ProjectLookups
    <2>8. AgreementDeployed'
      <3>1. \A i \in 1..Len(projects') : projects'[i].ownerApproval =>
               AgreementOf(projects'[i], holders, nameToHolderIndex, tokens, nameToTokenIndex)
        BY <2>2, <2>4, <2>6, <1>b, AgreementsDeployed
      <3> QED
        BY <3>1, <2>3 DEF AgreementDeployed, AgreementOf
    <2>9. HolderLookups' /\ TokenLookups'
      BY <2>3, <1>b DEF HolderLookups, TokenLookups
    <2> QED
      BY <2>7, <2>8, <2>9, <1>a DEF FactoriesInv
  <1>2. CASE Bid
    <2>1. PICK i \in 1..Len(projects), a \in Party, t \in Timelines, b \in Budgets :
             NewBidderTerms(i, a, t, b)
      BY <1>2 DEF Bid
    <2>2. /\ Len(projects') = Len(projects)
          /\ \A j \in 1..Len(projects) : j # i => projects'[j] = projects[j]
          /\ ~projects'[i].ownerApproval
          /\ projects'[i].projectName = projects[i].projectName
      BY <2>1, <1>a, BidProjects
    <2>3. UNCHANGED <<nameToProjectIndex, holders, nameToHolderIndex,
                      tokens, nameToTokenIndex, symbolToTokenIndex>>
      BY <2>1 DEF NewBidderTerms
    <2>4. ProjectLookups'
      BY <2>2, <2>3, <1>b DEF ProjectLookups
    <2>5. AgreementDeployed'
      <3>1. \A j \in 1..Len(projects') : projects'[j].ownerApproval =>
               AgreementOf(projects'[j], holders, nameToHolderIndex, tokens, nameToTokenIndex)
        BY <2>2, <1>b, AgreementsDeployed
      <3> QED
        BY <3>1, <2>3 DEF AgreementDeployed, AgreementOf
    <2>6. HolderLookups' /\ TokenLookups'
      BY <2>3, <1>b DEF HolderLookups, TokenLookups
    <2> QED
      BY <2>4, <2>5, <2>6, <1>a DEF FactoriesInv
  <1>3. CASE ApproveBid
    <2>1. PICK i \in 1..Len(projects), sender \in Party, bidder \in Party,
               auditor \in Auditors : ApproveBidderTerms(i, sender, bidder, auditor)
      BY <1>3 DEF ApproveBid
    <2> DEFINE p == projects[i]
               b == p.BidderToBudgets[sender]
               t == p.BidderToTimeline[sender]
    <2>2. /\ DeployNewHolder(p.projectName, p.owner, bidder, auditor, b, t)
          /\ DeployNewToken(p.projectName, p.symbol, p.owner, bidder, auditor)
          /\ UNCHANGED nameToProjectIndex
      BY <2>1 DEF ApproveBidderTerms
    <2>3. p.projectName \in Name /\ p.symbol \in Symbol
      <3>1. p \in Tracker
        BY <1>a DEF TypeOK
      <3> QED
        BY <3>1 DEF Tracker
    <2>4. /\ Len(projects') = Len(projects)
          /\ \A j \in 1..Len(projects) : j # i => projects'[j] = projects[j]
          /\ projects'[i].winningBidder = bidder
          /\ projects'[i].projectName = p.projectName
          /\ projects'[i].owner = p.owner /\ projects'[i].symbol = p.symbol
          /\ projects'[i].budgetsOwner = b /\ projects'[i].timelinesOwner = t
      BY <2>1, <1>a, ApproveProjects
    <2> DEFINE n == p.projectName
               h == [projectName |-> n, owner |-> p.owner, bidder |-> bidder,
                     auditor |-> auditor, budgets |-> b, timelines |-> t]
               k == [projectName |-> n, projectSymbol |-> p.symbol, owner |-> p.owner,
                     bidder |-> bidder, auditor |-> auditor]
    <2>5. /\ Len(holders') = Len(holders) + 1 /\ Len(holders) \in Nat
          /\ \A j \in 1..Len(holders) : holders'[j] = holders[j]
          /\ holders'[Len(holders) + 1] = h
          /\ nameToHolderIndex[n] = 0 /\ nameToHolderIndex'[n] = Len(holders) + 1
          /\ \A m \in Name : m # n => nameToHolderIndex'[m] = nameToHolderIndex[m]
          /\ HolderLookups'
      <3> HIDE DEF p, b, t
      <3> QED
        BY <2>2, <2>3, <1>a, <1>b, HolderAppended
    <2>6. /\ Len(tokens') = Len(tokens) + 1 /\ Len(tokens) \in Nat
          /\ \A j \in 1..Len(tokens) : tokens'[j] = tokens[j]
          /\ tokens'[Len(tokens) + 1] = k
          /\ nameToTokenIndex[n] = 0 /\ nameToTokenIndex'[n] = Len(tokens) + 1
          /\ \A m \in Name : m # n => nameToTokenIndex'[m] = nameToTokenIndex[m]
          /\ TokenLookups'
      <3> HIDE DEF p
      <3> QED
        BY <2>2, <2>3, <1>a, <1>b, TokenAppended
    <2>7. ProjectLookups'
      BY <2>2, <2>4, <1>b DEF ProjectLookups
    <2>8. /\ h.owner = p.owner /\ h.bidder = bidder /\ h.auditor = auditor
          /\ h.budgets = b /\ h.timelines = t
          /\ k.owner = p.owner /\ k.bidder = bidder /\ k.auditor = auditor
          /\ k.projectSymbol = p.symbol
      OBVIOUS
    <2>9. ASSUME NEW j \in 1..Len(projects), j # i, projects[j].ownerApproval
          PROVE  projects[j].projectName # n
      BY <2>5, <2>9, <1>b DEF AgreementDeployed
    <2> HIDE DEF h, k, b, t, p
    <2>10. ASSUME NEW j \in 1..Len(projects), projects'[j].ownerApproval
           PROVE  AgreementOf(projects'[j], holders', nameToHolderIndex',
                              tokens', nameToTokenIndex')
      <3>1. CASE j = i
        BY <3>1, <2>4, <2>5, <2>6, <2>8 DEF AgreementOf
      <3>2. CASE j # i
        <4>1. projects'[j] = projects[j] /\ projects[j].ownerApproval
          BY <3>2, <2>4, <2>10
        <4>2. projects[j].projectName # n /\ projects[j].projectName \in Name
          BY <3>2, <4>1, <2>9, <1>c
        <4>3. /\ nameToHolderIndex'[projects[j].projectName]
                   = nameToHolderIndex[projects[j].projectName]
              /\ nameToTokenIndex'[projects[j].projectName]
                   = nameToTokenIndex[projects[j].projectName]
          BY <4>2, <2>5, <2>6
        <4>4. AgreementOf(projects[j], holders, nameToHolderIndex, tokens, nameToTokenIndex)
          BY <4>1, <1>b, AgreementsDeployed
        <4>5. /\ Len(holders') \in Nat /\ Len(holders) \in Nat
              /\ Len(tokens') \in Nat /\ Len(tokens) \in Nat
              /\ Len(holders) <= Len(holders') /\ Len(tokens) <= Len(tokens')
              /\ \A m \in 1..Len(holders) : holders'[m] = holders[m]
              /\ \A m \in 1..Len(tokens) : tokens'[m] = tokens[m]
          BY <2>5, <2>6
        <4>6. AgreementOf(projects[j], holders', nameToHolderIndex',
                          tokens', nameToTokenIndex')
          BY <4>3, <4>4, <4>5, AgreementKept
        <4> QED
          BY <4>1, <4>6
      <3> QED
        BY <3>1, <3>2
    <2>11. AgreementDeployed'
      BY <2>4, <2>10 DEF AgreementDeployed, AgreementOf
    <2> QED
      BY <2>5, <2>6, <2>7, <2>11, <1>a DEF FactoriesInv
  <1>4. CASE DirectHolder
    <2>1. PICK n \in Name, owner \in Party, bidder \in Party, auditor \in Auditors,
               b \in Budgets, t \in Timelines :
             DeployNewHolder(n, owner, bidder, auditor, b, t)
      BY <1>4 DEF DirectHolder
    <2>2. UNCHANGED <<projects, nameToProjectIndex, tokens, nameToTokenIndex, symbolToTokenIndex>>
      BY <1>4 DEF DirectHolder
    <2>3. /\ Len(holders') = Len(holders) + 1 /\ Len(holders) \in Nat
          /\ \A j \in 1..Len(holders) : holders'[j] = holders[j]
          /\ nameToHolderIndex[n] = 0
          /\ \A m \in Name : m # n => nameToHolderIndex'[m] = nameToHolderIndex[m]
          /\ HolderLookups'
      BY <2>1, <1>a, <1>b, HolderAppended
    <2>4. \A j \in 1..Len(projects) : projects[j].ownerApproval =>
             /\ nameToHolderIndex'[projects[j].projectName]
                  = nameToHolderIndex[projects[j].projectName]
             /\ nameToHolderIndex[projects[j].projectName] \in 1..Len(holders)
      BY <2>3, <1>b, <1>c DEF AgreementDeployed
    <2>5. AgreementDeployed'
      <3>1. Len(holders) \in Nat /\ Len(tokens) \in Nat
        BY <1>a DEF TypeOK
      <3>2. /\ Len(holders') \in Nat /\ Len(holders) <= Len(holders')
            /\ Len(tokens') \in Nat /\ Len(tokens) <= Len(tokens')
            /\ \A i \in 1..Len(holders) : holders'[i] = holders[i]
            /\ \A i \in 1..Len(tokens) : tokens'[i] = tokens[i]
        BY <3>1, <2>2, <2>3
      <3>3. ASSUME NEW j \in 1..Len(projects), projects[j].ownerApproval
            PROVE  AgreementOf(projects[j], holders', nameToHolderIndex',
                               tokens', nameToTokenIndex')
        <4>1. AgreementOf(projects[j], holders, nameToHolderIndex, tokens, nameToTokenIndex)
          BY <3>3, <1>b, AgreementsDeployed
        <4>2. /\ nameToHolderIndex'[projects[j].projectName]
                   = nameToHolderIndex[projects[j].projectName]
              /\ nameToTokenIndex'[projects[j].projectName]
                   = nameToTokenIndex[projects[j].projectName]
          BY <3>3, <2>2, <2>4
        <4> QED
          BY <3>1, <3>2, <4>1, <4>2, AgreementKept
      <3> QED
        BY <3>3, <2>2 DEF AgreementDeployed, AgreementOf
    <2>6. ProjectLookups' /\ TokenLookups'
      BY <2>2, <1>b DEF ProjectLookups, TokenLookups
    <2> QED
      BY <2>3, <2>5, <2>6, <1>a DEF FactoriesInv
  <1>5. CASE DirectToken
    <2>1. PICK n \in Name, s \in Symbol, owner \in Party, bidder \in Party,
               auditor \in Auditors : DeployNewToken(n, s, owner, bidder, auditor)
      BY <1>5 DEF DirectToken
    <2>2. UNCHANGED <<projects, nameToProjectIndex, holders, nameToHolderIndex>>
      BY <1>5 DEF DirectToken
    <2>3. /\ Len(tokens') = Len(tokens) + 1 /\ Len(tokens) \in Nat
          /\ \A j \in 1..Len(tokens) : tokens'[j] = tokens[j]
          /\ nameToTokenIndex[n] = 0
          /\ \A m \in Name : m # n => nameToTokenIndex'[m] = nameToTokenIndex[m]
          /\ TokenLookups'
      BY <2>1, <1>a, <1>b, TokenAppended
    <2>4. \A j \in 1..Len(projects) : projects[j].ownerApproval =>
             /\ nameToTokenIndex'[projects[j].projectName]
                  = nameToTokenIndex[projects[j].projectName]
             /\ nameToTokenIndex[projects[j].projectName] \in 1..Len(tokens)
      BY <2>3, <1>b, <1>c DEF AgreementDeployed
    <2>5. AgreementDeployed'
      <3>1. Len(holders) \in Nat /\ Len(tokens) \in Nat
        BY <1>a DEF TypeOK
      <3>2. /\ Len(holders') \in Nat /\ Len(holders) <= Len(holders')
            /\ Len(tokens') \in Nat /\ Len(tokens) <= Len(tokens')
            /\ \A i \in 1..Len(holders) : holders'[i] = holders[i]
            /\ \A i \in 1..Len(tokens) : tokens'[i] = tokens[i]
        BY <3>1, <2>2, <2>3
      <3>3. ASSUME NEW j \in 1..Len(projects), projects[j].ownerApproval
            PROVE  AgreementOf(projects[j], holders', nameToHolderIndex',
                               tokens', nameToTokenIndex')
        <4>1. AgreementOf(projects[j], holders, nameToHolderIndex, tokens, nameToTokenIndex)
          BY <3>3, <1>b, AgreementsDeployed
        <4>2. /\ nameToHolderIndex'[projects[j].projectName]
                   = nameToHolderIndex[projects[j].projectName]
              /\ nameToTokenIndex'[projects[j].projectName]
                   = nameToTokenIndex[projects[j].projectName]
          BY <3>3, <2>2, <2>4
        <4> QED
          BY <3>1, <3>2, <4>1, <4>2, AgreementKept
      <3> QED
        BY <3>3, <2>2 DEF AgreementDeployed, AgreementOf
    <2>6. ProjectLookups' /\ HolderLookups'
      BY <2>2, <1>b DEF ProjectLookups, HolderLookups
    <2> QED
      BY <2>3, <2>5, <2>6, <1>a DEF FactoriesInv
  <1>6. CASE UNCHANGED vars
    <2>1. ProjectLookups' /\ HolderLookups' /\ TokenLookups'
      BY <1>6, <1>b DEF vars, ProjectLookups, HolderLookups, TokenLookups
    <2>2. AgreementDeployed'
      BY <1>6, <1>b DEF vars, AgreementDeployed
    <2> QED
      BY <2>1, <2>2, <1>a DEF FactoriesInv
  <1> QED
    BY <1>1, <1>2, <1>3, <1>4, <1>5, <1>6 DEF Next

\* The trackers and the factories always agree: an approved project has the
\* escrow and the token of its agreement under its name (approveBidderTerms),
\* and every name or symbol leads to its own contract (getProject, getHolder).
THEOREM FactoriesAgree == Spec => []NegotiationConsistent
  <1>1. Init => FactoriesInv
    <2>1. Init => NegotiationInv
      BY DEF Init, NegotiationInv, TypeOK, OneWinner, NameTaken
    <2>2. Init => ProjectLookups /\ HolderLookups /\ TokenLookups /\ AgreementDeployed
      BY DEF Init, ProjectLookups, HolderLookups, TokenLookups, AgreementDeployed
    <2> QED
      BY <2>1, <2>2 DEF FactoriesInv
  <1>2. FactoriesInv => NegotiationConsistent
    BY DEF FactoriesInv, NegotiationInv, NegotiationConsistent, LookupsFindOwnName,
           ProjectLookups, HolderLookups, TokenLookups
  <1> QED
    BY <1>1, <1>2, FactoriesStep, PTL DEF Spec

-----------------------------------------------------------------------------
(***************************************************************************)
(* Proof that the accounts of Dai and of the conditional tokens fit        *)
(* (TokensConsistent): Dai is conserved and the contract can pay every     *)
(* position, for any number of accounts, conditions, slots and reports.    *)
(***************************************************************************)

(* Arithmetic of payouts.                                                   *)

LEMMA TimesMonotone ==
    ASSUME NEW k \in Nat, NEW x \in Int, NEW y \in Int, x <= y
    PROVE  k * x <= k * y
  <1>1. y - x \in Nat
    OBVIOUS
  <1>2. k * (y - x) \in Nat
    BY <1>1
  <1>3. k * (y - x) = k * y - k * x
    OBVIOUS
  <1> QED
    BY <1>2, <1>3

LEMMA TimesCancels ==
    ASSUME NEW k \in Nat \ {0}, NEW x \in Int, NEW y \in Int, k * x < k * (y + 1)
    PROVE  x <= y
  <1>1. CASE x >= y + 1
    <2>1. k * (y + 1) <= k * x
      BY <1>1, TimesMonotone
    <2> QED
      BY <2>1
  <1> QED
    BY <1>1

LEMMA DivBounds ==
    ASSUME NEW n \in Nat, NEW d \in Nat \ {0}
    PROVE  /\ (n \div d) \in Nat
           /\ d * (n \div d) <= n
           /\ n < d * ((n \div d) + 1)
  OBVIOUS

\* Dividing and rounding up.
LEMMA RoundUpBounds ==
    ASSUME NEW v \in Nat, NEW d \in Nat \ {0}
    PROVE  LET q == (v + d - 1) \div d
           IN  q \in Nat /\ v <= d * q /\ d * q < v + d
  <1> DEFINE n == v + d - 1
             q == n \div d
  <1>1. n \in Nat
    OBVIOUS
  <1>2. q \in Nat /\ d * q <= n /\ n < d * (q + 1)
    <2> HIDE DEF n
    <2> QED
      BY <1>1, DivBounds
  <1>3. d * (q + 1) = d * q + d /\ d * q \in Int
    <2> HIDE DEF q
    <2> QED
      BY <1>2
  <1> HIDE DEF q
  <1>4. q \in Nat /\ v <= d * q /\ d * q < v + d
    BY <1>2, <1>3
  <1> QED
    BY <1>4 DEF q

\* A value of at most m units of d is rounded up to at most m.
LEMMA RoundUpAtMost ==
    ASSUME NEW v \in Nat, NEW d \in Nat \ {0}, NEW m \in Nat, v <= d * m
    PROVE  (v + d - 1) \div d <= m
  <1> DEFINE q == (v + d - 1) \div d
  <1>1. q \in Nat /\ d * q < v + d
    BY RoundUpBounds
  <1> HIDE DEF q
  <1>2. d * (m + 1) = d * m + d /\ d * m \in Int /\ d * q \in Int
    BY <1>1
  <1>3. d * q < d * (m + 1)
    BY <1>1, <1>2
  <1>4. q <= m
    BY <1>1, <1>3, TimesCancels
  <1> QED
    BY <1>4 DEF q

\* Paying k whole units of d out of v takes at least k off the rounded value.
LEMMA RoundUpAfterPaying ==
    ASSUME NEW v \in Nat, NEW u \in Nat, NEW d \in Nat \ {0}, NEW k \in Nat,
           u + d * k <= v
    PROVE  (u + d - 1) \div d + k <= (v + d - 1) \div d
  <1> DEFINE q == (v + d - 1) \div d
             r == (u + d - 1) \div d
  <1>1. q \in Nat /\ v <= d * q
    BY RoundUpBounds
  <1>2. r \in Nat /\ d * r < u + d
    BY RoundUpBounds
  <1> HIDE DEF q, r
  <1>3. /\ d * (r + k) = d * r + d * k
        /\ d * (q + 1) = d * q + d
        /\ d * r \in Int /\ d * k \in Int /\ d * q \in Int
    BY <1>1, <1>2
  <1>4. d * (r + k) < d * (q + 1)
    BY <1>1, <1>2, <1>3
  <1>5. r + k <= q
    BY <1>1, <1>2, <1>4, TimesCancels
  <1> QED
    BY <1>5 DEF q, r

\* Adding k whole units of d adds exactly k.
LEMMA RoundUpShifts ==
    ASSUME NEW v \in Nat, NEW d \in Nat \ {0}, NEW k \in Nat
    PROVE  (v + d * k + d - 1) \div d = (v + d - 1) \div d + k
  <1> DEFINE u == v + d * k
             q == (v + d - 1) \div d
             r == (u + d - 1) \div d
  <1>0. u \in Nat /\ d * k \in Nat
    OBVIOUS
  <1>1. q + k <= r
    <2> HIDE DEF u
    <2>1. v + d * k <= u
      BY <1>0 DEF u
    <2> QED
      BY <1>0, <2>1, RoundUpAfterPaying
  <1>2. q \in Nat /\ v <= d * q
    BY RoundUpBounds
  <1> HIDE DEF q
  <1>3. d * (q + k) = d * q + d * k /\ d * q \in Int
    BY <1>2
  <1>4. u <= d * (q + k)
    BY <1>0, <1>2, <1>3
  <1>5. r \in Nat
    <2> HIDE DEF u
    <2> QED
      BY <1>0, RoundUpBounds
  <1>6. r <= q + k
    <2> HIDE DEF u
    <2> QED
      BY <1>0, <1>2, <1>4, RoundUpAtMost
  <1>7. r = q + k
    <2> HIDE DEF r, u
    <2> QED
      BY <1>1, <1>2, <1>5, <1>6
  <1> QED
    BY <1>7 DEF q

-----------------------------------------------------------------------------
(* What a table q of positions is worth: the operators of the model, as      *)
(* functions of the table, of the numerators n and of the denominator d.     *)

PositionTable == [Address -> [Position -> Wad]]

StakeIn(q, c, I) == SumFunctionOnSet([a \in Address |-> q[a][<<c, I>>]], Address)

With(s) == {I \in IndexSet : s \in I}

SlotStakeIn(q, c, s) ==
  SumFunctionOnSet([I \in IndexSet |-> StakeIn(q, c, I)], With(s))

WorthIn(q, n, c) ==
  SumFunctionOnSet([I \in IndexSet |-> StakeIn(q, c, I) * SumFunctionOnSet(n, I)], IndexSet)

OwedIn(q, n, d, c) ==
  IF n = Unprepared THEN 0
  ELSE IF d = 0 THEN Max({SlotStakeIn(q, c, s) : s \in Slot})
  ELSE (WorthIn(q, n, c) + d - 1) \div d

LEMMA OwedByTable ==
    \A c \in Condition :
      Owed(c) = OwedIn(positions, payoutNumerators[c], payoutDenominator[c], c)
  BY DEF Owed, OwedIn, Prepared, Worth, WorthIn, SlotStake, SlotStakeIn, With, Stake,
         StakeIn, Numerator

LEMMA OwedByTableNext ==
    \A c \in Condition :
      Owed(c)' = OwedIn(positions', payoutNumerators'[c], payoutDenominator'[c], c)
  BY DEF Owed, OwedIn, Prepared, Worth, WorthIn, SlotStake, SlotStakeIn, With, Stake,
         StakeIn, Numerator

LEMMA IndexSetsFinite ==
    /\ IsFiniteSet(Slot) /\ Slot # {} /\ IsFiniteSet(IndexSet)
    /\ \A s \in Slot : IsFiniteSet(With(s)) /\ With(s) \subseteq IndexSet
    /\ \A I \in IndexSet : IsFiniteSet(I) /\ I \subseteq Slot
  <1>1. IsFiniteSet(Slot) /\ Slot # {}
    BY ConditionalTokensAssumption, FS_EmptySet
  <1>2. IsFiniteSet(SUBSET Slot)
    BY <1>1, FS_SUBSET
  <1>3. IsFiniteSet(IndexSet)
    BY <1>2, FS_Subset DEF IndexSet
  <1>4. \A s \in Slot : IsFiniteSet(With(s)) /\ With(s) \subseteq IndexSet
    BY <1>3, FS_Subset DEF With
  <1>5. \A I \in IndexSet : IsFiniteSet(I) /\ I \subseteq Slot
    BY <1>1, FS_Subset DEF IndexSet
  <1> QED
    BY <1>1, <1>3, <1>4, <1>5

LEMMA TableNat ==
    ASSUME NEW q \in PositionTable, NEW c \in Condition, NEW I \in IndexSet, NEW a \in Address
    PROVE  q[a][<<c, I>>] \in Nat
  <1>1. <<c, I>> \in Position
    BY DEF Position
  <1> QED
    BY <1>1, DaiAssumption DEF PositionTable, Wad

LEMMA StakeNat ==
    ASSUME NEW q \in PositionTable, NEW c \in Condition
    PROVE  /\ \A I \in IndexSet : StakeIn(q, c, I) \in Nat
           /\ \A s \in Slot : SlotStakeIn(q, c, s) \in Nat
  <1>1. ASSUME NEW I \in IndexSet
        PROVE  StakeIn(q, c, I) \in Nat
    <2> DEFINE f == [a \in Address |-> q[a][<<c, I>>]]
    <2>1. NatOn(f, Address)
      BY TableNat DEF NatOn
    <2> HIDE DEF f
    <2>2. SumFunctionOnSet(f, Address) \in Nat
      BY <2>1, CallersAssumption, SumNat
    <2> QED
      BY <2>2 DEF StakeIn, f
  <1>2. ASSUME NEW s \in Slot
        PROVE  SlotStakeIn(q, c, s) \in Nat
    <2> DEFINE f == [I \in IndexSet |-> StakeIn(q, c, I)]
    <2>1. NatOn(f, With(s))
      BY <1>1 DEF NatOn, With
    <2> HIDE DEF f
    <2>2. SumFunctionOnSet(f, With(s)) \in Nat
      BY <2>1, IndexSetsFinite, SumNat
    <2> QED
      BY <2>2 DEF SlotStakeIn, f
  <1> QED
    BY <1>1, <1>2

LEMMA NumeratorNat ==
    ASSUME NEW n \in [Slot -> Nat], NEW I \in SUBSET Slot
    PROVE  SumFunctionOnSet(n, I) \in Nat
  <1>1. IsFiniteSet(I) /\ NatOn(n, I)
    BY IndexSetsFinite, FS_Subset DEF NatOn
  <1> QED
    BY <1>1, SumNat

LEMMA WorthNat ==
    ASSUME NEW q \in PositionTable, NEW c \in Condition, NEW n \in [Slot -> Nat]
    PROVE  WorthIn(q, n, c) \in Nat
  <1> DEFINE f == [I \in IndexSet |-> StakeIn(q, c, I) * SumFunctionOnSet(n, I)]
  <1>1. ASSUME NEW I \in IndexSet
        PROVE  f[I] \in Nat
    <2>1. StakeIn(q, c, I) \in Nat /\ SumFunctionOnSet(n, I) \in Nat
      BY StakeNat, NumeratorNat, IndexSetsFinite
    <2> QED
      BY <2>1
  <1>2. NatOn(f, IndexSet)
    BY <1>1 DEF NatOn
  <1> HIDE DEF f
  <1>3. SumFunctionOnSet(f, IndexSet) \in Nat
    BY <1>2, IndexSetsFinite, SumNat
  <1> QED
    BY <1>3 DEF WorthIn, f

\* A finite, non-empty set of naturals has a largest member.
LEMMA MaxOf ==
    ASSUME NEW S, IsFiniteSet(S), S # {}, NEW f, NatOn(f, S)
    PROVE  LET M == Max({f[x] : x \in S})
           IN  M \in Nat /\ (\E x \in S : M = f[x]) /\ \A x \in S : f[x] <= M
  <1> DEFINE HasMax(T) == \E x \in T : \A y \in T : f[y] <= f[x]
             B == {T \in SUBSET S : T # {} /\ ~HasMax(T)}
  <1>1. B = {}
    <2>1. SUFFICES ASSUME B # {}
                   PROVE  FALSE
      OBVIOUS
    <2>2. PICK T \in B : \A x \in T : (T \ {x}) \notin B
      <3>1. B \in SUBSET (SUBSET S)
        OBVIOUS
      <3> HIDE DEF B
      <3> QED
        BY <2>1, <3>1, MinimalSet
    <2>3. PICK x \in T : TRUE
      BY <2>2
    <2>4. CASE T = {x}
      BY <2>2, <2>4 DEF NatOn
    <2>5. CASE T # {x}
      <3>1. HasMax(T \ {x})
        BY <2>2, <2>3, <2>5
      <3>2. PICK z \in T \ {x} : \A y \in T \ {x} : f[y] <= f[z]
        BY <3>1
      <3>3. f[x] \in Nat /\ f[z] \in Nat /\ \A y \in T : f[y] \in Nat
        BY <2>2, <2>3, <3>2 DEF NatOn
      <3>4. HasMax(T)
        <4>1. CASE f[x] <= f[z]
          BY <3>2, <3>3, <4>1
        <4>2. CASE f[z] <= f[x]
          BY <2>3, <3>2, <3>3, <4>2
        <4> QED
          BY <3>3, <4>1, <4>2
      <3> QED
        BY <2>2, <3>4
    <2> QED
      BY <2>4, <2>5
  <1>2. PICK x \in S : \A y \in S : f[y] <= f[x]
    BY <1>1
  <1> DEFINE V == {f[y] : y \in S}
  <1>3. f[x] \in V /\ \A v \in V : f[x] >= v
    BY <1>2 DEF NatOn
  <1>4. Max(V) \in V /\ \A v \in V : Max(V) >= v
    <2> HIDE DEF V
    <2> QED
      BY <1>3, Zenon DEF Max
  <1>5. Max(V) \in Nat /\ (\E y \in S : Max(V) = f[y]) /\ \A y \in S : f[y] <= Max(V)
    <2> DEFINE M == Max(V)
    <2>1. M \in V /\ \A v \in V : M >= v
      BY <1>4
    <2> HIDE DEF M
    <2>2. M \in Nat /\ (\E y \in S : M = f[y]) /\ \A y \in S : f[y] <= M
      BY <2>1 DEF NatOn
    <2> QED
      BY <2>2 DEF M
  <1> QED
    BY <1>5

LEMMA LargestSlotStake ==
    ASSUME NEW q \in PositionTable, NEW c \in Condition
    PROVE  LET M == Max({SlotStakeIn(q, c, s) : s \in Slot})
           IN  /\ M \in Nat
               /\ \E s \in Slot : M = SlotStakeIn(q, c, s)
               /\ \A s \in Slot : SlotStakeIn(q, c, s) <= M
  <1> DEFINE f == [s \in Slot |-> SlotStakeIn(q, c, s)]
  <1>1. NatOn(f, Slot)
    BY StakeNat DEF NatOn
  <1>2. {SlotStakeIn(q, c, s) : s \in Slot} = {f[s] : s \in Slot}
    OBVIOUS
  <1>3. \A s \in Slot : f[s] = SlotStakeIn(q, c, s)
    OBVIOUS
  <1> HIDE DEF f
  <1>4. LET M == Max({f[s] : s \in Slot})
        IN  M \in Nat /\ (\E s \in Slot : M = f[s]) /\ \A s \in Slot : f[s] <= M
    BY <1>1, IndexSetsFinite, MaxOf
  <1> DEFINE N == Max({SlotStakeIn(q, c, s) : s \in Slot})
  <1>5. N \in Nat /\ (\E s \in Slot : N = f[s]) /\ \A s \in Slot : f[s] <= N
    BY <1>2, <1>4
  <1> HIDE DEF N
  <1>6. /\ N \in Nat
        /\ \E s \in Slot : N = SlotStakeIn(q, c, s)
        /\ \A s \in Slot : SlotStakeIn(q, c, s) <= N
    BY <1>3, <1>5
  <1> QED
    BY <1>6 DEF N

\* The worth of all positions, slot by slot: numerator times stake on the slot.
SlotWorth(q, n, c) == [s \in Slot |-> n[s] * SlotStakeIn(q, c, s)]

LEMMA WorthBySlots ==
    ASSUME NEW q \in PositionTable, NEW c \in Condition, NEW n \in [Slot -> Nat]
    PROVE  WorthIn(q, n, c) = SumFunctionOnSet(SlotWorth(q, n, c), Slot)
  <1> DEFINE st == [I \in IndexSet |-> StakeIn(q, c, I)]
             w == [I \in IndexSet |-> StakeIn(q, c, I) * SumFunctionOnSet(n, I)]
             In(F, s) == {I \in F : s \in I}
             by(F) == [s \in Slot |-> n[s] * SumFunctionOnSet(st, In(F, s))]
             B == {F \in SUBSET IndexSet :
                     SumFunctionOnSet(w, F) # SumFunctionOnSet(by(F), Slot)}
  <1>0. /\ NatOn(st, IndexSet)
        /\ NatOn(w, IndexSet)
        /\ \A I \in IndexSet : SumFunctionOnSet(n, I) \in Nat
        /\ \A I \in IndexSet : w[I] = st[I] * SumFunctionOnSet(n, I)
    <2>1. \A I \in IndexSet : StakeIn(q, c, I) \in Nat
      BY StakeNat
    <2>2. \A I \in IndexSet : SumFunctionOnSet(n, I) \in Nat
      BY NumeratorNat, IndexSetsFinite
    <2>3. \A I \in IndexSet : StakeIn(q, c, I) * SumFunctionOnSet(n, I) \in Nat
      BY <2>1, <2>2
    <2> QED
      BY <2>1, <2>2, <2>3 DEF NatOn
  <1>9. WorthIn(q, n, c) = SumFunctionOnSet(w, IndexSet)
    BY DEF WorthIn
  <1>10. SlotWorth(q, n, c) = by(IndexSet)
    BY DEF SlotWorth, SlotStakeIn, With
  <1> HIDE DEF st, w
  <1>1. ASSUME NEW F \in SUBSET IndexSet, NEW s \in Slot
        PROVE  /\ IsFiniteSet(In(F, s)) /\ NatOn(st, In(F, s))
               /\ SumFunctionOnSet(st, In(F, s)) \in Nat
    <2>1. In(F, s) \in SUBSET IndexSet
      OBVIOUS
    <2>2. IsFiniteSet(In(F, s)) /\ NatOn(st, In(F, s))
      BY <1>0, <2>1, IndexSetsFinite, FS_Subset DEF NatOn
    <2> HIDE DEF In
    <2> QED
      BY <2>2, SumNat
  <1>2. ASSUME NEW F \in SUBSET IndexSet
        PROVE  NatOn(by(F), Slot)
    <2>1. ASSUME NEW s \in Slot
          PROVE  n[s] * SumFunctionOnSet(st, In(F, s)) \in Nat
      <3>1. n[s] \in Nat /\ SumFunctionOnSet(st, In(F, s)) \in Nat
        BY <1>1
      <3> HIDE DEF In
      <3> QED
        BY <3>1
    <2> QED
      BY <2>1 DEF NatOn
  <1>3. B = {}
    <2>1. SUFFICES ASSUME B # {}
                   PROVE  FALSE
      OBVIOUS
    <2>2. PICK F \in B : \A J \in F : (F \ {J}) \notin B
      <3>1. B \in SUBSET (SUBSET IndexSet)
        OBVIOUS
      <3> HIDE DEF B
      <3> QED
        BY <2>1, <3>1, IndexSetsFinite, MinimalSet
    <2>3. PICK J \in F : TRUE
      <3>1. \A s \in Slot : by({})[s] = 0
        <4>1. \A s \in Slot : In({}, s) = {}
          OBVIOUS
        <4>2. \A s \in Slot : SumFunctionOnSet(st, In({}, s)) = 0
          BY <4>1, SumEmpty
        <4> QED
          BY <4>2
      <3>2. SumFunctionOnSet(by({}), Slot) = 0
        <4> HIDE DEF by
        <4> QED
          BY <3>1, SumZero, IndexSetsFinite
      <3>3. SumFunctionOnSet(w, {}) = 0
        BY SumEmpty
      <3> QED
        BY <2>2, <3>2, <3>3
    <2> DEFINE E == F \ {J}
               part == [s \in Slot |-> IF s \in J THEN n[s] ELSE 0]
               more == [s \in Slot |-> st[J] * part[s]]
    <2>4. E \in SUBSET IndexSet /\ F \in SUBSET IndexSet /\ J \in IndexSet
      BY <2>2, <2>3
    <2>5. st[J] \in Nat /\ NatOn(part, Slot) /\ NatOn(more, Slot)
      BY <1>0, <2>4 DEF NatOn
    <2>6. ASSUME NEW s \in Slot
          PROVE  by(F)[s] = by(E)[s] + more[s]
      <3>1. CASE s \in J
        <4>1. In(E, s) = In(F, s) \ {J} /\ J \in In(F, s)
          BY <2>3, <3>1
        <4>2. SumFunctionOnSet(st, In(F, s)) = st[J] + SumFunctionOnSet(st, In(E, s))
          <5> DEFINE X == In(F, s)
          <5>1. IsFiniteSet(X) /\ NatOn(st, X) /\ J \in X /\ In(E, s) = X \ {J}
            BY <1>1, <2>4, <4>1
          <5> HIDE DEF X
          <5>2. SumFunctionOnSet(st, X) = st[J] + SumFunctionOnSet(st, X \ {J})
            BY <5>1, SumRemove
          <5> QED
            BY <5>1, <5>2 DEF X
        <4>3. SumFunctionOnSet(st, In(E, s)) \in Nat
          BY <1>1, <2>4
        <4>4. more[s] = st[J] * n[s] /\ n[s] \in Nat
          BY <3>1
        <4> DEFINE e == SumFunctionOnSet(st, In(E, s))
        <4>5. e \in Nat /\ by(F)[s] = n[s] * (st[J] + e) /\ by(E)[s] = n[s] * e
          BY <4>2, <4>3
        <4> HIDE DEF e, by, more
        <4>6. n[s] * (st[J] + e) = n[s] * e + st[J] * n[s]
          BY <2>5, <4>4, <4>5
        <4> QED
          BY <4>4, <4>5, <4>6
      <3>2. CASE s \notin J
        <4>1. In(E, s) = In(F, s)
          BY <3>2
        <4>2. by(F)[s] = by(E)[s]
          BY <4>1
        <4>3. more[s] = 0
          BY <3>2, <2>5
        <4>4. by(E)[s] \in Nat
          BY <1>2, <2>4 DEF NatOn
        <4> HIDE DEF by, more, E
        <4> QED
          BY <4>2, <4>3, <4>4
      <3> QED
        BY <3>1, <3>2
    <2>7. SumFunctionOnSet(by(F), Slot)
            = SumFunctionOnSet(by(E), Slot) + SumFunctionOnSet(more, Slot)
      <3>1. NatOn(by(E), Slot)
        BY <1>2, <2>4
      <3> HIDE DEF by, more, E
      <3> QED
        BY <2>5, <2>6, <3>1, SumPlus, IndexSetsFinite
    <2>8. SumFunctionOnSet(more, Slot) = st[J] * SumFunctionOnSet(part, Slot)
      <3>0. PICK k \in Nat : k = st[J]
        BY <2>5
      <3>1. \A s \in Slot : more[s] = k * part[s]
        BY <3>0
      <3> HIDE DEF more, part
      <3>2. SumFunctionOnSet(more, Slot) = k * SumFunctionOnSet(part, Slot)
        BY <2>5, <3>1, SumTimes, IndexSetsFinite
      <3> QED
        BY <3>0, <3>2
    <2>9. SumFunctionOnSet(n, J) = SumFunctionOnSet(part, Slot)
      <3>1. /\ J \in SUBSET Slot
            /\ \A s \in J : n[s] = part[s]
            /\ \A s \in Slot \ J : part[s] = 0
        BY <2>4, IndexSetsFinite
      <3> HIDE DEF part
      <3> QED
        BY <2>5, <3>1, SumSupport, IndexSetsFinite
    <2>10. SumFunctionOnSet(w, F) = w[J] + SumFunctionOnSet(w, E)
      <3>1. IsFiniteSet(F) /\ NatOn(w, F)
        BY <1>0, <2>4, IndexSetsFinite, FS_Subset DEF NatOn
      <3> QED
        BY <2>3, <3>1, SumRemove
    <2>11. SumFunctionOnSet(w, E) = SumFunctionOnSet(by(E), Slot)
      BY <2>2, <2>3, <2>4
    <2>12. w[J] = SumFunctionOnSet(more, Slot)
      BY <1>0, <2>4, <2>8, <2>9
    <2>13. SumFunctionOnSet(more, Slot) \in Nat /\ SumFunctionOnSet(by(E), Slot) \in Nat
      <3>1. NatOn(by(E), Slot)
        BY <1>2, <2>4
      <3> HIDE DEF more, by, E
      <3> QED
        BY <2>5, <3>1, SumNat, IndexSetsFinite
    <2>14. SumFunctionOnSet(w, F) = SumFunctionOnSet(by(F), Slot)
      <3> HIDE DEF more, by, E
      <3> QED
        BY <2>7, <2>10, <2>11, <2>12, <2>13
    <2> QED
      BY <2>2, <2>14
  <1>4. SumFunctionOnSet(w, IndexSet) = SumFunctionOnSet(by(IndexSet), Slot)
    BY <1>3
  <1> QED
    BY <1>4, <1>9, <1>10

\* The numerators and the denominator of a condition in any of its three phases:
\* unprepared, prepared, reported.
Phase(n, d) ==
  /\ d \in Nat
  /\ \/ n = Unprepared /\ d = 0
     \/ n \in [Slot -> Nat] /\ d \in {0, SumFunctionOnSet(n, Slot)}

LEMMA OwedNat ==
    ASSUME NEW q \in PositionTable, NEW c \in Condition, NEW n, NEW d, Phase(n, d)
    PROVE  OwedIn(q, n, d, c) \in Nat
  <1>1. CASE n = Unprepared
    BY <1>1 DEF OwedIn
  <1>2. CASE n # Unprepared /\ d = 0
    BY <1>2, LargestSlotStake DEF OwedIn
  <1>3. CASE n # Unprepared /\ d # 0
    <2>1. n \in [Slot -> Nat] /\ d \in Nat \ {0}
      BY <1>3 DEF Phase
    <2>2. WorthIn(q, n, c) \in Nat
      BY <2>1, WorthNat
    <2>3. (WorthIn(q, n, c) + d - 1) \div d \in Nat
      BY <2>1, <2>2, RoundUpBounds
    <2> QED
      BY <1>3, <2>3 DEF OwedIn
  <1> QED
    BY <1>1, <1>2, <1>3

LEMMA NumeratorsPrepared == \A n \in [Slot -> Nat] : n # Unprepared
  BY ConditionalTokensAssumption

\* Whatever the oracle reports, it costs at most the largest stake on one slot.
LEMMA ReportOwesAtMost ==
    ASSUME NEW q \in PositionTable, NEW c \in Condition, NEW m \in [Slot -> Nat],
           NEW n \in [Slot -> Nat], SumFunctionOnSet(n, Slot) > 0
    PROVE  OwedIn(q, n, SumFunctionOnSet(n, Slot), c) <= OwedIn(q, m, 0, c)
  <1> DEFINE M == Max({SlotStakeIn(q, c, s) : s \in Slot})
             T == SumFunctionOnSet(n, Slot)
             u == [s \in Slot |-> M * n[s]]
  <1>1. M \in Nat /\ \A s \in Slot : SlotStakeIn(q, c, s) <= M
    BY LargestSlotStake
  <1>2. T \in Nat \ {0}
    BY NumeratorNat
  <1>3. NatOn(n, Slot)
    BY DEF NatOn
  <1> HIDE DEF M
  <1>4. ASSUME NEW s \in Slot
        PROVE  /\ SlotWorth(q, n, c)[s] <= u[s]
               /\ SlotWorth(q, n, c)[s] \in Nat
               /\ u[s] \in Nat
    <2>1. n[s] \in Nat /\ SlotStakeIn(q, c, s) \in Nat
      BY StakeNat
    <2>2. n[s] * SlotStakeIn(q, c, s) <= n[s] * M
      BY <1>1, <2>1, TimesMonotone
    <2>3. n[s] * M = M * n[s] /\ M * n[s] \in Nat /\ n[s] * SlotStakeIn(q, c, s) \in Nat
      BY <1>1, <2>1
    <2> QED
      BY <2>2, <2>3 DEF SlotWorth
  <1>5. SumFunctionOnSet(SlotWorth(q, n, c), Slot) <= SumFunctionOnSet(u, Slot)
    <2>1. NatOn(u, Slot) /\ NatOn(SlotWorth(q, n, c), Slot)
      BY <1>4 DEF NatOn
    <2> HIDE DEF u
    <2> QED
      BY <1>4, <2>1, SumMonotone, IndexSetsFinite
  <1>6. SumFunctionOnSet(u, Slot) = M * T
    <2>1. \A s \in Slot : u[s] = M * n[s]
      OBVIOUS
    <2> HIDE DEF u
    <2> QED
      BY <1>1, <1>3, <2>1, SumTimes, IndexSetsFinite
  <1>7. WorthIn(q, n, c) \in Nat /\ WorthIn(q, n, c) <= T * M
    <2>1. M * T = T * M
      <3> HIDE DEF T
      <3> QED
        BY <1>1, <1>2
    <2> HIDE DEF T, u
    <2> QED
      BY <1>5, <1>6, <2>1, WorthBySlots, WorthNat
  <1>8. (WorthIn(q, n, c) + T - 1) \div T <= M
    <2> HIDE DEF T
    <2> QED
      BY <1>1, <1>2, <1>7, RoundUpAtMost
  <1>9. OwedIn(q, n, T, c) = (WorthIn(q, n, c) + T - 1) \div T
    <2> HIDE DEF T
    <2> QED
      BY <1>2, NumeratorsPrepared DEF OwedIn
  <1>10. OwedIn(q, m, 0, c) = M
    BY NumeratorsPrepared DEF OwedIn, M
  <1> QED
    BY <1>8, <1>9, <1>10

\* A stake of k more on every slot costs k more, in every phase.
LEMMA OwedShifts ==
    ASSUME NEW q \in PositionTable, NEW r \in PositionTable, NEW c \in Condition,
           NEW k \in Nat, NEW n \in [Slot -> Nat], NEW d, Phase(n, d),
           \A s \in Slot : SlotStakeIn(r, c, s) = SlotStakeIn(q, c, s) + k
    PROVE  OwedIn(r, n, d, c) = OwedIn(q, n, d, c) + k
  <1>1. CASE d = 0
    <2> DEFINE M == Max({SlotStakeIn(q, c, s) : s \in Slot})
               N == Max({SlotStakeIn(r, c, s) : s \in Slot})
    <2>1. /\ M \in Nat /\ (\E s \in Slot : M = SlotStakeIn(q, c, s))
          /\ \A s \in Slot : SlotStakeIn(q, c, s) <= M
      BY LargestSlotStake
    <2>2. /\ N \in Nat /\ (\E s \in Slot : N = SlotStakeIn(r, c, s))
          /\ \A s \in Slot : SlotStakeIn(r, c, s) <= N
      BY LargestSlotStake
    <2>3. OwedIn(q, n, d, c) = M /\ OwedIn(r, n, d, c) = N
      BY <1>1, NumeratorsPrepared DEF OwedIn
    <2> HIDE DEF M, N
    <2>4. N = M + k
      BY <2>1, <2>2, StakeNat
    <2> QED
      BY <2>3, <2>4
  <1>2. CASE d # 0
    <2>0. d = SumFunctionOnSet(n, Slot) /\ d \in Nat \ {0}
      BY <1>2, NumeratorsPrepared DEF Phase
    <2> DEFINE f == SlotWorth(q, n, c)
               g == SlotWorth(r, n, c)
               u == [s \in Slot |-> k * n[s]]
    <2>1. ASSUME NEW s \in Slot
          PROVE  g[s] = f[s] + u[s] /\ f[s] \in Nat /\ u[s] \in Nat
      <3>1. n[s] \in Nat /\ SlotStakeIn(q, c, s) \in Nat
        BY StakeNat
      <3>2. n[s] * (SlotStakeIn(q, c, s) + k) = n[s] * SlotStakeIn(q, c, s) + k * n[s]
        BY <3>1
      <3>3. n[s] * SlotStakeIn(q, c, s) \in Nat /\ k * n[s] \in Nat
        BY <3>1
      <3> QED
        BY <3>2, <3>3 DEF SlotWorth
    <2>2. NatOn(f, Slot) /\ NatOn(u, Slot) /\ NatOn(n, Slot)
      BY <2>1 DEF NatOn
    <2>3. \A s \in Slot : u[s] = k * n[s]
      OBVIOUS
    <2> HIDE DEF f, g, u
    <2>4. SumFunctionOnSet(g, Slot) = SumFunctionOnSet(f, Slot) + SumFunctionOnSet(u, Slot)
      BY <2>1, <2>2, SumPlus, IndexSetsFinite
    <2>5. SumFunctionOnSet(u, Slot) = k * SumFunctionOnSet(n, Slot)
      BY <2>2, <2>3, SumTimes, IndexSetsFinite
    <2>6. /\ WorthIn(q, n, c) = SumFunctionOnSet(f, Slot)
          /\ WorthIn(r, n, c) = SumFunctionOnSet(g, Slot)
      BY WorthBySlots DEF f, g
    <2>7. k * d = d * k
      BY <2>0
    <2>8. WorthIn(r, n, c) = WorthIn(q, n, c) + d * k /\ WorthIn(q, n, c) \in Nat
      BY <2>0, <2>4, <2>5, <2>6, <2>7, WorthNat
    <2>9. (WorthIn(r, n, c) + d - 1) \div d = (WorthIn(q, n, c) + d - 1) \div d + k
      BY <2>0, <2>8, RoundUpShifts
    <2> QED
      BY <1>2, <2>9, NumeratorsPrepared DEF OwedIn
  <1> QED
    BY <1>1, <1>2

\* What is owed depends on the stakes only.
LEMMA OwedByStakes ==
    ASSUME NEW q, NEW r, NEW c, NEW n, NEW d,
           \A I \in IndexSet : StakeIn(r, c, I) = StakeIn(q, c, I)
    PROVE  OwedIn(r, n, d, c) = OwedIn(q, n, d, c)
  <1>1. [I \in IndexSet |-> StakeIn(r, c, I)] = [I \in IndexSet |-> StakeIn(q, c, I)]
    OBVIOUS
  <1>2. \A s \in Slot : SlotStakeIn(r, c, s) = SlotStakeIn(q, c, s)
    BY <1>1 DEF SlotStakeIn
  <1>3. {SlotStakeIn(r, c, s) : s \in Slot} = {SlotStakeIn(q, c, s) : s \in Slot}
    BY <1>2
  <1>4. [I \in IndexSet |-> StakeIn(r, c, I) * SumFunctionOnSet(n, I)]
          = [I \in IndexSet |-> StakeIn(q, c, I) * SumFunctionOnSet(n, I)]
    OBVIOUS
  <1>5. WorthIn(r, n, c) = WorthIn(q, n, c)
    BY <1>4 DEF WorthIn
  <1> QED
    BY <1>3, <1>5 DEF OwedIn

-----------------------------------------------------------------------------
(* What splits, merges, redemptions and transfers do to the stakes.          *)

\* Account a's row is the only one in which r and q differ.
OnlyRow(q, r, a) == \A b \in Address \ {a} : r[b] = q[b]

LEMMA StakeChange ==
    ASSUME NEW q \in PositionTable, NEW r \in PositionTable, NEW a \in Address,
           OnlyRow(q, r, a), NEW c \in Condition, NEW I \in IndexSet
    PROVE  StakeIn(r, c, I) + q[a][<<c, I>>] = StakeIn(q, c, I) + r[a][<<c, I>>]
  <1> DEFINE f == [b \in Address |-> q[b][<<c, I>>]]
             g == [b \in Address |-> r[b][<<c, I>>]]
  <1>1. NatOn(f, Address) /\ NatOn(g, Address)
    BY TableNat DEF NatOn
  <1>2. \A b \in Address \ {a} : g[b] = f[b]
    BY DEF OnlyRow
  <1>3. f[a] = q[a][<<c, I>>] /\ g[a] = r[a][<<c, I>>]
    OBVIOUS
  <1>4. StakeIn(q, c, I) = SumFunctionOnSet(f, Address)
        /\ StakeIn(r, c, I) = SumFunctionOnSet(g, Address)
    BY DEF StakeIn
  <1> HIDE DEF f, g
  <1>5. SumFunctionOnSet(g, Address) + f[a] = SumFunctionOnSet(f, Address) + g[a]
    BY <1>1, <1>2, CallersAssumption, SumChange
  <1> QED
    BY <1>3, <1>4, <1>5

\* A split (k positive) or a merge (k negative) along partition P: every part
\* changes by k and, when P does not cover all slots, what it covers by -k.
Regrouped(q, r, a, c, P, k) ==
  \A I \in IndexSet :
    r[a][<<c, I>>] = q[a][<<c, I>>] + (IF I \in P THEN k
                                       ELSE IF UNION P # Slot /\ I = UNION P THEN -k
                                       ELSE 0)

LEMMA WholeIsNoPart ==
    ASSUME NEW P, ValidPartition(P)
    PROVE  /\ UNION P \notin P
           /\ UNION P # Slot => UNION P \in IndexSet
           /\ P \subseteq IndexSet
  <1>1. P \subseteq IndexSet /\ IsFiniteSet(P) /\ Cardinality(P) > 1
    BY IndexSetsFinite, FS_Subset DEF ValidPartition
  <1>2. UNION P \notin P
    <2>1. SUFFICES ASSUME UNION P \in P
                   PROVE  FALSE
      OBVIOUS
    <2>2. \A x : P # {x}
      <3>1. ASSUME NEW x, P = {x}
            PROVE  FALSE
        <4>1. Cardinality({x}) = 1
          BY FS_Singleton
        <4> QED
          BY <1>1, <3>1, <4>1
      <3> QED
        BY <3>1
    <2>3. PICK J \in P : J # UNION P
      BY <2>1, <2>2
    <2>4. J \cap UNION P = {} /\ J # {} /\ J \subseteq UNION P
      BY <1>1, <2>1, <2>3 DEF ValidPartition, IndexSet
    <2> QED
      BY <2>4
  <1>3. P # {}
    BY <1>1, FS_EmptySet
  <1>4. UNION P # {} /\ UNION P \subseteq Slot
    BY <1>1, <1>3 DEF IndexSet
  <1> QED
    BY <1>1, <1>2, <1>4 DEF IndexSet

LEMMA RegroupedStakes ==
    ASSUME NEW q \in PositionTable, NEW r \in PositionTable, NEW a \in Address,
           OnlyRow(q, r, a), NEW c \in Condition, NEW P, ValidPartition(P),
           NEW k \in Int, Regrouped(q, r, a, c, P, k), NEW s \in Slot
    PROVE  SlotStakeIn(r, c, s) = SlotStakeIn(q, c, s) + (IF UNION P = Slot THEN k ELSE 0)
  <1> DEFINE f == [I \in IndexSet |-> StakeIn(q, c, I)]
             g == [I \in IndexSet |-> StakeIn(r, c, I)]
             W == UNION P
  <1>1. ASSUME NEW I \in IndexSet
        PROVE  /\ f[I] \in Nat /\ g[I] \in Nat
               /\ g[I] = f[I] + (IF I \in P THEN k ELSE IF W # Slot /\ I = W THEN -k ELSE 0)
    <2>1. q[a][<<c, I>>] \in Nat /\ r[a][<<c, I>>] \in Nat
      BY TableNat
    <2>2. StakeIn(q, c, I) \in Nat /\ StakeIn(r, c, I) \in Nat
      BY StakeNat
    <2>3. StakeIn(r, c, I) + q[a][<<c, I>>] = StakeIn(q, c, I) + r[a][<<c, I>>]
      BY StakeChange
    <2>4. r[a][<<c, I>>] = q[a][<<c, I>>]
            + (IF I \in P THEN k ELSE IF W # Slot /\ I = W THEN -k ELSE 0)
      BY DEF Regrouped
    <2> HIDE DEF W
    <2> QED
      BY <2>1, <2>2, <2>3, <2>4
  <1>2. NatOn(f, With(s)) /\ NatOn(g, With(s)) /\ IsFiniteSet(With(s))
    BY <1>1, IndexSetsFinite DEF NatOn
  <1>3. /\ SlotStakeIn(q, c, s) = SumFunctionOnSet(f, With(s))
        /\ SlotStakeIn(r, c, s) = SumFunctionOnSet(g, With(s))
        /\ SumFunctionOnSet(f, With(s)) \in Nat
        /\ SumFunctionOnSet(g, With(s)) \in Nat
    BY StakeNat DEF SlotStakeIn
  <1>4. P \subseteq IndexSet /\ W \notin P /\ (W # Slot => W \in IndexSet)
    BY WholeIsNoPart
  <1>5. \A I \in P : I \subseteq W
    OBVIOUS
  <1>6. With(s) \subseteq IndexSet /\ \A I \in IndexSet : I \in With(s) <=> s \in I
    BY DEF With
  <1>7. CASE s \notin W
    <2>1. \A I \in With(s) : g[I] = f[I]
      <3>1. ASSUME NEW I \in With(s)
            PROVE  g[I] = f[I]
        <4>1. I \in IndexSet /\ I \notin P /\ I # W
          BY <1>5, <1>6, <1>7
        <4>2. f[I] \in Nat /\ g[I] = f[I] + 0
          BY <1>1, <4>1
        <4> HIDE DEF f, g
        <4> QED
          BY <4>2
      <3> QED
        BY <3>1
    <2>2. W # Slot
      BY <1>7
    <2> HIDE DEF f, g, W
    <2>3. SumFunctionOnSet(g, With(s)) = SumFunctionOnSet(f, With(s))
      BY <1>2, <2>1, SumSame
    <2> QED
      BY <1>3, <2>2, <2>3 DEF W
  <1>8. CASE s \in W
    <2>1. PICK J \in P : s \in J
      BY <1>8
    <2>2. J \in With(s) /\ J \in IndexSet
      BY <1>4, <1>6, <2>1
    <2>3. \A I \in P : s \in I => I = J
      BY <2>1 DEF ValidPartition
    <2>4. g[J] = f[J] + k /\ f[J] \in Nat /\ g[J] \in Nat
      BY <1>1, <2>1, <2>2
    <2>5. CASE W = Slot
      <3>1. ASSUME NEW I \in With(s) \ {J}
            PROVE  g[I] = f[I]
        <4>1. I \in IndexSet /\ I \notin P
          BY <1>6, <2>3
        <4>2. f[I] \in Nat /\ g[I] = f[I] + 0
          BY <1>1, <2>5, <4>1
        <4> HIDE DEF f, g
        <4> QED
          BY <4>2
      <3> HIDE DEF f, g, W
      <3>2. SumFunctionOnSet(g, With(s)) + f[J] = SumFunctionOnSet(f, With(s)) + g[J]
        BY <1>2, <2>2, <3>1, SumChange
      <3>3. SumFunctionOnSet(g, With(s)) = SumFunctionOnSet(f, With(s)) + k
        BY <1>3, <2>4, <3>2
      <3> QED
        BY <1>3, <2>5, <3>3 DEF W
    <2>6. CASE W # Slot
      <3>0. W \in With(s) /\ W \in IndexSet /\ W # J
        BY <1>4, <1>6, <1>8, <2>1, <2>6
      <3>1. ASSUME NEW I \in With(s) \ {J, W}
            PROVE  g[I] = f[I]
        <4>1. I \in IndexSet /\ I \notin P /\ I # W
          BY <1>6, <2>3
        <4>2. f[I] \in Nat /\ g[I] = f[I] + 0
          BY <1>1, <4>1
        <4> HIDE DEF f, g
        <4> QED
          BY <4>2
      <3>4. g[W] = f[W] + (-k) /\ f[W] \in Nat /\ g[W] \in Nat
        BY <1>1, <1>4, <2>6, <3>0
      <3> HIDE DEF f, g, W
      <3>5. SumFunctionOnSet(g, With(s)) + f[J] + f[W]
              = SumFunctionOnSet(f, With(s)) + g[J] + g[W]
        BY <1>2, <2>2, <3>0, <3>1, SumChangeTwo
      <3>6. SumFunctionOnSet(g, With(s)) = SumFunctionOnSet(f, With(s))
        BY <1>3, <2>4, <3>4, <3>5
      <3> QED
        BY <1>3, <2>6, <3>6 DEF W
    <2> QED
      BY <2>5, <2>6
  <1> QED
    BY <1>7, <1>8

\* A redemption of the index sets F by account a: its stakes in them are gone.
Redeemed(q, r, a, c, F) ==
  \A I \in IndexSet : r[a][<<c, I>>] = IF I \in F THEN 0 ELSE q[a][<<c, I>>]

PaidFor(q, a, c, n, d, F) ==
  [I \in F |-> (q[a][<<c, I>>] * SumFunctionOnSet(n, I)) \div d]

\* Each payout is rounded down, so together they cost no more than what was owed
\* for them, rounding up included.
LEMMA RedeemedOwes ==
    ASSUME NEW q \in PositionTable, NEW r \in PositionTable, NEW a \in Address,
           OnlyRow(q, r, a), NEW c \in Condition, NEW F \in SUBSET IndexSet,
           Redeemed(q, r, a, c, F), NEW n \in [Slot -> Nat], NEW d \in Nat \ {0}
    PROVE  /\ SumFunctionOnSet(PaidFor(q, a, c, n, d, F), F) \in Nat
           /\ OwedIn(r, n, d, c) + SumFunctionOnSet(PaidFor(q, a, c, n, d, F), F)
                <= OwedIn(q, n, d, c)
  <1> DEFINE pay == PaidFor(q, a, c, n, d, F)
             due == [I \in F |-> q[a][<<c, I>>] * SumFunctionOnSet(n, I)]
             scaled == [I \in F |-> d * pay[I]]
             off == [I \in IndexSet |-> IF I \in F THEN due[I] ELSE 0]
             f == [I \in IndexSet |-> StakeIn(q, c, I) * SumFunctionOnSet(n, I)]
             g == [I \in IndexSet |-> StakeIn(r, c, I) * SumFunctionOnSet(n, I)]
  <1>1. ASSUME NEW I \in F
        PROVE  /\ due[I] \in Nat /\ pay[I] \in Nat /\ scaled[I] \in Nat
               /\ scaled[I] <= due[I]
    <2>1. q[a][<<c, I>>] \in Nat /\ SumFunctionOnSet(n, I) \in Nat
      BY TableNat, NumeratorNat, IndexSetsFinite
    <2>2. due[I] \in Nat
      BY <2>1
    <2>3. pay[I] = due[I] \div d
      BY DEF PaidFor
    <2>4. scaled[I] = d * pay[I]
      OBVIOUS
    <2> HIDE DEF due, pay, scaled
    <2>5. pay[I] \in Nat /\ d * pay[I] <= due[I]
      BY <2>2, <2>3, DivBounds
    <2>6. d * pay[I] \in Nat
      BY <2>5
    <2> QED
      BY <2>2, <2>4, <2>5, <2>6
  <1>2. ASSUME NEW I \in IndexSet
        PROVE  /\ f[I] = g[I] + off[I]
               /\ f[I] \in Nat /\ g[I] \in Nat /\ off[I] \in Nat
    <2>1. q[a][<<c, I>>] \in Nat /\ SumFunctionOnSet(n, I) \in Nat
      BY TableNat, NumeratorNat, IndexSetsFinite
    <2>2. StakeIn(q, c, I) \in Nat /\ StakeIn(r, c, I) \in Nat
      BY StakeNat
    <2>3. StakeIn(r, c, I) + q[a][<<c, I>>] = StakeIn(q, c, I) + r[a][<<c, I>>]
      BY StakeChange
    <2> DEFINE x == q[a][<<c, I>>]
               y == StakeIn(r, c, I)
               z == StakeIn(q, c, I)
               m == SumFunctionOnSet(n, I)
    <2>4. f[I] = z * m /\ g[I] = y * m
      OBVIOUS
    <2>5. CASE I \in F
      <3>1. r[a][<<c, I>>] = 0 /\ off[I] = x * m
        BY <2>5 DEF Redeemed
      <3>2. z = y + x /\ x \in Nat /\ y \in Nat /\ m \in Nat
        BY <2>1, <2>2, <2>3, <3>1
      <3> HIDE DEF x, y, z, m, f, g, off
      <3>3. (y + x) * m = y * m + x * m /\ y * m \in Nat /\ x * m \in Nat /\ z * m \in Nat
        BY <3>2
      <3> QED
        BY <2>4, <3>1, <3>2, <3>3
    <2>6. CASE I \notin F
      <3>1. r[a][<<c, I>>] = q[a][<<c, I>>] /\ off[I] = 0
        BY <2>6 DEF Redeemed
      <3>2. z = y /\ y \in Nat /\ m \in Nat
        BY <2>1, <2>2, <2>3, <3>1
      <3> HIDE DEF x, y, z, m, f, g, off
      <3>3. y * m \in Nat /\ z * m = y * m
        BY <3>2
      <3> QED
        BY <2>4, <3>1, <3>3
    <2> QED
      BY <2>5, <2>6
  <1>3. \A I \in F : off[I] = due[I]
    OBVIOUS
  <1>4. \A I \in IndexSet \ F : off[I] = 0
    OBVIOUS
  <1>5. \A I \in F : scaled[I] = d * pay[I]
    OBVIOUS
  <1>6. WorthIn(q, n, c) = SumFunctionOnSet(f, IndexSet)
        /\ WorthIn(r, n, c) = SumFunctionOnSet(g, IndexSet)
    BY DEF WorthIn
  <1> HIDE DEF pay, due, scaled, off, f, g
  <1>7. IsFiniteSet(F) /\ NatOn(due, F) /\ NatOn(pay, F) /\ NatOn(scaled, F)
    BY <1>1, IndexSetsFinite, FS_Subset DEF NatOn
  <1>8. NatOn(f, IndexSet) /\ NatOn(g, IndexSet) /\ NatOn(off, IndexSet)
    BY <1>2 DEF NatOn
  <1>9. SumFunctionOnSet(f, IndexSet)
          = SumFunctionOnSet(g, IndexSet) + SumFunctionOnSet(off, IndexSet)
    BY <1>2, <1>8, SumPlus, IndexSetsFinite
  <1>10. SumFunctionOnSet(due, F) = SumFunctionOnSet(off, IndexSet)
    <2>1. \A I \in F : due[I] = off[I]
      BY <1>3
    <2> QED
      BY <1>4, <1>8, <2>1, SumSupport, IndexSetsFinite
  <1>11. SumFunctionOnSet(scaled, F) = d * SumFunctionOnSet(pay, F)
    BY <1>5, <1>7, SumTimes
  <1>12. SumFunctionOnSet(scaled, F) <= SumFunctionOnSet(due, F)
    BY <1>1, <1>7, SumMonotone
  <1> DEFINE k == SumFunctionOnSet(pay, F)
             u == WorthIn(r, n, c)
             v == WorthIn(q, n, c)
             e == SumFunctionOnSet(due, F)
  <1>13. k \in Nat /\ u \in Nat /\ v \in Nat /\ e \in Nat /\ v = u + e /\ d * k <= e
    BY <1>6, <1>7, <1>9, <1>10, <1>11, <1>12, SumNat, WorthNat
  <1>14. /\ OwedIn(r, n, d, c) = (u + d - 1) \div d
         /\ OwedIn(q, n, d, c) = (v + d - 1) \div d
    BY NumeratorsPrepared DEF OwedIn
  <1> HIDE DEF k, u, v, e
  <1>15. u + d * k <= v
    <2>1. d * k \in Nat
      BY <1>13
    <2> QED
      BY <1>13, <2>1
  <1>16. (u + d - 1) \div d + k <= (v + d - 1) \div d
    BY <1>13, <1>15, RoundUpAfterPaying
  <1> QED
    BY <1>13, <1>14, <1>16 DEF k, pay

Transferred(q, a, b, p, w) ==
  LET taken == [q EXCEPT ![a][p] = @ - w]
  IN  [taken EXCEPT ![b][p] = @ + w]

\* A transfer of positions leaves every stake as it was.
LEMMA TransferredStakes ==
    ASSUME NEW q \in PositionTable, NEW r \in PositionTable,
           NEW a \in Address, NEW b \in Address, NEW p \in Position, NEW w \in Nat,
           r = Transferred(q, a, b, p, w),
           NEW c \in Condition, NEW I \in IndexSet
    PROVE  StakeIn(r, c, I) = StakeIn(q, c, I)
  <1> DEFINE f == [x \in Address |-> q[x][<<c, I>>]]
             g == [x \in Address |-> r[x][<<c, I>>]]
  <1>0. <<c, I>> \in Position
    BY DEF Position
  <1>1. NatOn(f, Address) /\ NatOn(g, Address)
    BY TableNat DEF NatOn
  <1>2. StakeIn(q, c, I) = SumFunctionOnSet(f, Address)
        /\ StakeIn(r, c, I) = SumFunctionOnSet(g, Address)
    BY DEF StakeIn
  <1>3. CASE a = b \/ <<c, I>> # p
    <2>1. \A x \in Address : r[x][<<c, I>>] = q[x][<<c, I>>]
      <3> DEFINE u == [q EXCEPT ![a][p] = @ - w]
      <3>1. u \in [Address -> [Position -> Int]]
        BY DaiAssumption DEF PositionTable, Wad
      <3>2. r = [u EXCEPT ![b][p] = @ + w]
        BY DEF Transferred
      <3>3. \A x \in Address, y \in Position :
              /\ q[x][y] \in Int
              /\ u[x][y] = IF x = a /\ y = p THEN q[x][y] - w ELSE q[x][y]
        BY DaiAssumption DEF PositionTable, Wad
      <3> HIDE DEF u
      <3>4. \A x \in Address, y \in Position :
              r[x][y] = IF x = b /\ y = p THEN u[x][y] + w ELSE u[x][y]
        BY <3>1, <3>2
      <3>5. ASSUME NEW x \in Address
            PROVE  r[x][<<c, I>>] = q[x][<<c, I>>]
        <4> DEFINE y == <<c, I>>
        <4>1. y \in Position /\ (a = b \/ y # p)
          BY <1>0, <1>3
        <4> HIDE DEF y
        <4>2. r[x][y] = q[x][y]
          <5>1. CASE y # p
            BY <3>3, <3>4, <4>1, <5>1
          <5>2. CASE y = p /\ a = b /\ x = a
            <6>1. q[x][y] \in Int /\ u[x][y] = q[x][y] - w /\ r[x][y] = u[x][y] + w
              BY <3>3, <3>4, <4>1, <5>2
            <6> QED
              BY <6>1
          <5>3. CASE y = p /\ a = b /\ x # a
            BY <3>3, <3>4, <4>1, <5>3
          <5> QED
            BY <4>1, <5>1, <5>2, <5>3
        <4> QED
          BY <4>2 DEF y
      <3> QED
        BY <3>5
    <2>2. \A x \in Address : g[x] = f[x]
      BY <2>1
    <2> HIDE DEF f, g
    <2> QED
      BY <1>1, <1>2, <2>2, CallersAssumption, SumSame
  <1>4. CASE a # b /\ <<c, I>> = p
    <2>1. /\ \A x \in Address \ {a, b} : r[x] = q[x]
          /\ r[a][p] = q[a][p] - w /\ r[b][p] = q[b][p] + w
      BY <1>4 DEF PositionTable, Transferred
    <2>2. \A x \in Address \ {a, b} : g[x] = f[x]
      BY <2>1
    <2>3. g[a] = f[a] - w /\ g[b] = f[b] + w
      BY <1>4, <2>1
    <2> HIDE DEF f, g
    <2>4. SumFunctionOnSet(g, Address) + f[a] + f[b] = SumFunctionOnSet(f, Address) + g[a] + g[b]
      BY <1>1, <1>4, <2>2, CallersAssumption, SumChangeTwo
    <2>5. f[a] \in Nat /\ f[b] \in Nat
      BY <1>1 DEF NatOn
    <2>6. SumFunctionOnSet(g, Address) \in Nat /\ SumFunctionOnSet(f, Address) \in Nat
      BY <1>1, CallersAssumption, SumNat
    <2> QED
      BY <1>2, <2>3, <2>4, <2>5, <2>6
  <1> QED
    BY <1>3, <1>4

-----------------------------------------------------------------------------
(* Dai.                                                                     *)

BalanceAfter(src, dst, wad, x) ==
  IF src = dst THEN balanceOf[x]
  ELSE IF x = src THEN balanceOf[x] - wad
  ELSE IF x = dst THEN balanceOf[x] + wad
  ELSE balanceOf[x]

LEMMA BalancesNat ==
    ASSUME DaiTypeOK
    PROVE  NatOn(balanceOf, Address) /\ SumFunctionOnSet(balanceOf, Address) \in Nat
  <1>1. NatOn(balanceOf, Address)
    BY DaiAssumption DEF DaiTypeOK, Wad, NatOn
  <1> QED
    BY <1>1, CallersAssumption, SumNat

\* A move of Dai changes two balances, or none, and never their sum.
LEMMA MovedFacts ==
    ASSUME DaiTypeOK, NEW src \in Address, NEW dst \in Address, NEW wad \in Nat,
           balanceOf[src] >= wad, Moved(src, dst, wad)[dst] <= MaxUint
    PROVE  /\ Moved(src, dst, wad) \in [Address -> Wad]
           /\ \A x \in Address : Moved(src, dst, wad)[x] = BalanceAfter(src, dst, wad, x)
           /\ SumFunctionOnSet(Moved(src, dst, wad), Address)
                = SumFunctionOnSet(balanceOf, Address)
  <1> DEFINE m == Moved(src, dst, wad)
             d == [balanceOf EXCEPT ![src] = @ - wad]
  <1>0. \A x \in Address : balanceOf[x] \in Wad /\ balanceOf[x] \in Nat
    BY DaiAssumption DEF DaiTypeOK, Wad
  <1>1. DOMAIN d = Address /\ \A x \in Address :
          d[x] = IF x = src THEN balanceOf[x] - wad ELSE balanceOf[x]
    BY DEF DaiTypeOK
  <1>2. m = [x \in Address |-> IF x = dst THEN d[x] + wad ELSE d[x]]
    BY <1>1 DEF Moved
  <1> HIDE DEF m, d
  <1>3. ASSUME NEW x \in Address
        PROVE  m[x] = BalanceAfter(src, dst, wad, x) /\ m[x] \in Wad
    <2>1. m[x] = IF x = dst THEN d[x] + wad ELSE d[x]
      BY <1>2
    <2>2. m[x] = BalanceAfter(src, dst, wad, x)
      BY <1>0, <1>1, <2>1 DEF BalanceAfter
    <2>3. m[dst] <= MaxUint /\ m[dst] = BalanceAfter(src, dst, wad, dst)
      BY <1>0, <1>1, <1>2 DEF BalanceAfter, m
    <2> QED
      BY <1>0, <2>2, <2>3, DaiAssumption DEF BalanceAfter, Wad
  <1>4. m \in [Address -> Wad]
    BY <1>2, <1>3
  <1>5. SumFunctionOnSet(m, Address) = SumFunctionOnSet(balanceOf, Address)
    <2>0. NatOn(balanceOf, Address) /\ NatOn(m, Address) /\ IsFiniteSet(Address)
      BY <1>0, <1>3, CallersAssumption, DaiAssumption DEF NatOn, Wad
    <2>1. CASE src = dst
      <3>1. \A x \in Address : m[x] = balanceOf[x]
        BY <1>3, <2>1 DEF BalanceAfter
      <3> QED
        BY <2>0, <3>1, SumSame
    <2>2. CASE src # dst
      <3>1. \A x \in Address \ {src, dst} : m[x] = balanceOf[x]
        BY <1>3, <2>2 DEF BalanceAfter
      <3>2. m[src] = balanceOf[src] - wad /\ m[dst] = balanceOf[dst] + wad
        BY <1>3, <2>2 DEF BalanceAfter
      <3>3. SumFunctionOnSet(m, Address) + balanceOf[src] + balanceOf[dst]
              = SumFunctionOnSet(balanceOf, Address) + m[src] + m[dst]
        BY <2>0, <2>2, <3>1, SumChangeTwo
      <3>4. SumFunctionOnSet(m, Address) \in Nat /\ SumFunctionOnSet(balanceOf, Address) \in Nat
        BY <2>0, SumNat
      <3> QED
        BY <1>0, <3>2, <3>3, <3>4
    <2> QED
      BY <2>1, <2>2
  <1> QED
    BY <1>3, <1>4, <1>5 DEF m

LEMMA SpentType ==
    ASSUME DaiTypeOK, NEW src \in Address, NEW spender \in Address, NEW wad \in Nat,
           MaySpend(src, spender, wad)
    PROVE  Spent(src, spender, wad) \in [Address -> [Address -> Wad]]
  <1>1. CASE Metered(src, spender)
    <2>1. allowance[src][spender] \in Wad /\ allowance[src][spender] >= wad
      BY <1>1 DEF DaiTypeOK, MaySpend
    <2>2. allowance[src][spender] - wad \in Wad
      BY <2>1, DaiAssumption DEF Wad
    <2> QED
      BY <1>1, <2>2 DEF Spent, DaiTypeOK
  <1>2. CASE ~Metered(src, spender)
    BY <1>2 DEF Spent, DaiTypeOK
  <1> QED
    BY <1>1, <1>2

LEMMA TransferFromKeeps ==
    ASSUME DaiTypeOK, NEW spender \in Address, NEW src \in Address, NEW dst \in Address,
           NEW wad \in Nat, TransferFrom(spender, src, dst, wad)
    PROVE  /\ DaiTypeOK'
           /\ DaiConserved => DaiConserved'
           /\ \A x \in Address : balanceOf'[x] = BalanceAfter(src, dst, wad, x)
  <1>1. /\ balanceOf[src] >= wad
        /\ Moved(src, dst, wad)[dst] <= MaxUint
        /\ balanceOf' = Moved(src, dst, wad)
        /\ allowance' = Spent(src, spender, wad)
        /\ totalSupply' = totalSupply
        /\ MaySpend(src, spender, wad)
    BY DEF TransferFrom, MaySpend
  <1>2. DaiTypeOK'
    BY <1>1, MovedFacts, SpentType DEF DaiTypeOK
  <1>3. DaiConserved => DaiConserved'
    BY <1>1, MovedFacts DEF DaiConserved
  <1>4. \A x \in Address : balanceOf'[x] = BalanceAfter(src, dst, wad, x)
    BY <1>1, MovedFacts
  <1> QED
    BY <1>2, <1>3, <1>4

LEMMA MintKeeps ==
    ASSUME DaiTypeOK, NEW usr \in Address, NEW wad \in Nat, Mint(usr, wad)
    PROVE  /\ DaiTypeOK'
           /\ DaiConserved => DaiConserved'
           /\ \A x \in Address :
                balanceOf'[x] = IF x = usr THEN balanceOf[x] + wad ELSE balanceOf[x]
  <1>1. \A x \in Address : balanceOf[x] \in Nat /\ balanceOf[x] <= MaxUint
    BY DaiAssumption DEF DaiTypeOK, Wad
  <1>2. \A x \in Address :
          balanceOf'[x] = IF x = usr THEN balanceOf[x] + wad ELSE balanceOf[x]
    BY DEF Mint, DaiTypeOK
  <1>3. DaiTypeOK'
    <2>1. balanceOf[usr] + wad \in Wad /\ totalSupply + wad \in Wad
      BY <1>1, DaiAssumption DEF Mint, DaiTypeOK, Wad
    <2> QED
      BY <2>1 DEF Mint, DaiTypeOK
  <1>4. NatOn(balanceOf, Address) /\ NatOn(balanceOf', Address) /\ IsFiniteSet(Address)
    BY <1>1, <1>2, CallersAssumption DEF NatOn
  <1>5. SumFunctionOnSet(balanceOf', Address) + balanceOf[usr]
          = SumFunctionOnSet(balanceOf, Address) + balanceOf'[usr]
    BY <1>2, <1>4, SumChange
  <1>6. /\ SumFunctionOnSet(balanceOf', Address) \in Nat
        /\ SumFunctionOnSet(balanceOf, Address) \in Nat
    BY <1>4, SumNat
  <1>7. SumFunctionOnSet(balanceOf', Address) = SumFunctionOnSet(balanceOf, Address) + wad
    BY <1>1, <1>2, <1>5, <1>6
  <1>8. DaiConserved => DaiConserved'
    BY <1>7 DEF DaiConserved, Mint
  <1> QED
    BY <1>2, <1>3, <1>8

LEMMA BurnKeeps ==
    ASSUME DaiTypeOK, NEW sender \in Address, NEW usr \in Address, NEW wad \in Nat,
           Burn(sender, usr, wad)
    PROVE  /\ DaiTypeOK'
           /\ DaiConserved => DaiConserved'
           /\ \A x \in Address :
                balanceOf'[x] = IF x = usr THEN balanceOf[x] - wad ELSE balanceOf[x]
  <1>1. \A x \in Address : balanceOf[x] \in Nat /\ balanceOf[x] <= MaxUint
    BY DaiAssumption DEF DaiTypeOK, Wad
  <1>2. \A x \in Address :
          balanceOf'[x] = IF x = usr THEN balanceOf[x] - wad ELSE balanceOf[x]
    BY DEF Burn, DaiTypeOK
  <1>3. balanceOf[usr] >= wad /\ MaySpend(usr, sender, wad)
    BY DEF Burn, MaySpend
  <1>4. DaiTypeOK'
    <2>1. balanceOf[usr] - wad \in Wad /\ totalSupply - wad \in Wad
      BY <1>1, <1>3, DaiAssumption DEF Burn, DaiTypeOK, Wad
    <2>2. allowance' \in [Address -> [Address -> Wad]]
      BY <1>3, SpentType DEF Burn
    <2> QED
      BY <2>1, <2>2 DEF Burn, DaiTypeOK
  <1>5. NatOn(balanceOf, Address) /\ NatOn(balanceOf', Address) /\ IsFiniteSet(Address)
    BY <1>1, <1>2, <1>3, CallersAssumption DEF NatOn
  <1>6. SumFunctionOnSet(balanceOf', Address) + balanceOf[usr]
          = SumFunctionOnSet(balanceOf, Address) + balanceOf'[usr]
    BY <1>2, <1>5, SumChange
  <1>7. /\ SumFunctionOnSet(balanceOf', Address) \in Nat
        /\ SumFunctionOnSet(balanceOf, Address) \in Nat
    BY <1>5, SumNat
  <1>8. SumFunctionOnSet(balanceOf', Address) = SumFunctionOnSet(balanceOf, Address) - wad
    BY <1>1, <1>2, <1>6, <1>7
  <1>9. DaiConserved => DaiConserved'
    BY <1>8 DEF DaiConserved, Burn
  <1> QED
    BY <1>2, <1>4, <1>9

LEMMA ApproveKeeps ==
    ASSUME DaiTypeOK, NEW sender \in Address, NEW usr \in Address, NEW wad \in Wad,
           Approve(sender, usr, wad)
    PROVE  /\ DaiTypeOK'
           /\ DaiConserved => DaiConserved'
           /\ balanceOf' = balanceOf
  BY DEF Approve, DaiTypeOK, DaiConserved

-----------------------------------------------------------------------------
(* The inductive invariant: besides TokensConsistent, a denominator is the   *)
(* sum of its numerators, and nobody holds a position of a condition that    *)
(* has not been prepared.                                                    *)

PhasesOK == \A c \in Condition : Phase(payoutNumerators[c], payoutDenominator[c])

NoEarlyStake ==
  \A c \in Condition : ~Prepared(c) =>
    \A a \in Address, I \in IndexSet : positions[a][<<c, I>>] = 0

TokenInv == TokensConsistent /\ PhasesOK /\ NoEarlyStake

LEMMA TypesOfTokens ==
    ASSUME ConditionalTokensTypeOK
    PROVE  /\ positions \in PositionTable
           /\ payoutNumerators \in [Condition -> [Slot -> Wad] \cup {Unprepared}]
           /\ payoutDenominator \in [Condition -> Wad]
           /\ \A c \in Condition : payoutDenominator[c] \in Nat
           /\ \A x \in Address : balanceOf[x] \in Nat
           /\ DaiTypeOK
  BY DaiAssumption DEF ConditionalTokensTypeOK, PositionTable, DaiTypeOK, Wad

LEMMA WadFunctions == [Slot -> Wad] \subseteq [Slot -> Nat]
  BY DaiAssumption DEF Wad

LEMMA OwedIsNat ==
    ASSUME ConditionalTokensTypeOK, PhasesOK
    PROVE  \A c \in Condition : Owed(c) \in Nat
  BY OwedByTable, OwedNat, TypesOfTokens DEF PhasesOK

\* One condition's debt changes, by no more than the contract's balance does.
LEMMA SolventStep ==
    ASSUME ConditionalTokensTypeOK, PhasesOK, Solvent,
           ConditionalTokensTypeOK', PhasesOK', NEW c \in Condition,
           \A e \in Condition \ {c} : Owed(e)' = Owed(e),
           Owed(c)' + balanceOf[CT] <= Owed(c) + balanceOf'[CT]
    PROVE  Solvent'
  <1>1. \A e \in Condition : Owed(e) \in Nat
    BY OwedIsNat
  <1>2. \A e \in Condition : Owed(e)' \in Nat
    BY OwedByTableNext, OwedNat, TypesOfTokens DEF PhasesOK, ConditionalTokensTypeOK,
       PositionTable
  <1>3. balanceOf[CT] \in Nat /\ balanceOf'[CT] \in Nat
    BY ConditionalTokensAssumption, DaiAssumption DEF ConditionalTokensTypeOK, DaiTypeOK, Wad
  <1> DEFINE f == [e \in Condition |-> Owed(e)]
             g == [e \in Condition |-> Owed(e)']
  <1>4. NatOn(f, Condition) /\ NatOn(g, Condition)
    BY <1>1, <1>2 DEF NatOn
  <1>5. \A e \in Condition \ {c} : g[e] = f[e]
    OBVIOUS
  <1>6. f[c] = Owed(c) /\ g[c] = Owed(c)'
    OBVIOUS
  <1>7. /\ Solvent <=> balanceOf[CT] >= SumFunctionOnSet(f, Condition)
        /\ Solvent' <=> balanceOf'[CT] >= SumFunctionOnSet(g, Condition)
    BY DEF Solvent
  <1> HIDE DEF f, g
  <1>8. SumFunctionOnSet(g, Condition) + f[c] = SumFunctionOnSet(f, Condition) + g[c]
    BY <1>4, <1>5, CallersAssumption, SumChange
  <1>9. SumFunctionOnSet(g, Condition) \in Nat /\ SumFunctionOnSet(f, Condition) \in Nat
    BY <1>4, CallersAssumption, SumNat
  <1>10. balanceOf[CT] >= SumFunctionOnSet(f, Condition)
    BY <1>7
  <1>11. f[c] \in Nat /\ g[c] \in Nat /\ g[c] + balanceOf[CT] <= f[c] + balanceOf'[CT]
    BY <1>1, <1>2, <1>6
  <1>12. balanceOf'[CT] >= SumFunctionOnSet(g, Condition)
    BY <1>3, <1>8, <1>9, <1>10, <1>11
  <1> QED
    BY <1>7, <1>12

\* Calls of Dai that do not take from the contract.
LEMMA DaiCallKeeps ==
    ASSUME TokenInv, UNCHANGED ctVars, DaiTypeOK', DaiConserved',
           balanceOf[CT] <= balanceOf'[CT]
    PROVE  TokenInv'
  <1>1. ConditionalTokensTypeOK' /\ PhasesOK' /\ NoEarlyStake'
    BY DEF TokenInv, TokensConsistent, ConditionalTokensTypeOK, PhasesOK, NoEarlyStake,
           Prepared, ctVars
  <1>2. \A c \in Condition : Owed(c)' = Owed(c)
    BY OwedByTable, OwedByTableNext DEF ctVars
  <1>3. balanceOf[CT] \in Nat /\ balanceOf'[CT] \in Nat
    BY <1>1, ConditionalTokensAssumption, DaiAssumption
    DEF TokenInv, TokensConsistent, ConditionalTokensTypeOK, DaiTypeOK, Wad
  <1> DEFINE f == [e \in Condition |-> Owed(e)]
             g == [e \in Condition |-> Owed(e)']
  <1>4. f = g
    BY <1>2
  <1>5. /\ Solvent <=> balanceOf[CT] >= SumFunctionOnSet(f, Condition)
        /\ Solvent' <=> balanceOf'[CT] >= SumFunctionOnSet(g, Condition)
    BY DEF Solvent
  <1>6. SumFunctionOnSet(f, Condition) \in Nat
    <2>1. NatOn(f, Condition)
      BY OwedIsNat DEF NatOn, TokenInv, TokensConsistent
    <2> HIDE DEF f
    <2> QED
      BY <2>1, CallersAssumption, SumNat
  <1> HIDE DEF f, g
  <1>7. Solvent'
    BY <1>3, <1>4, <1>5, <1>6 DEF TokenInv, TokensConsistent
  <1> QED
    BY <1>1, <1>7 DEF TokenInv, TokensConsistent

LEMMA PrepareKeeps ==
    ASSUME TokenInv, NEW c \in Condition, PrepareCondition(c), UNCHANGED daiVars
    PROVE  TokenInv'
  <1> DEFINE z == [s \in Slot |-> 0]
  <1>0. ConditionalTokensTypeOK /\ PhasesOK /\ NoEarlyStake /\ Solvent /\ DaiConserved
    BY DEF TokenInv, TokensConsistent
  <1>1. /\ ~Prepared(c) /\ payoutNumerators' = [payoutNumerators EXCEPT ![c] = z]
        /\ payoutDenominator' = payoutDenominator /\ positions' = positions
        /\ balanceOf' = balanceOf /\ allowance' = allowance /\ totalSupply' = totalSupply
    BY DEF PrepareCondition, daiVars
  <1>2. z \in [Slot -> Wad] /\ z \in [Slot -> Nat]
    BY DaiAssumption DEF Wad
  <1>3. payoutDenominator[c] = 0 /\ payoutNumerators[c] = Unprepared
    BY <1>0, <1>1, NumeratorsPrepared DEF PhasesOK, Phase, Prepared
  <1> HIDE DEF z
  <1>4. payoutNumerators'[c] = z
        /\ \A e \in Condition \ {c} : payoutNumerators'[e] = payoutNumerators[e]
    BY <1>0, <1>1, TypesOfTokens
  <1>5. ConditionalTokensTypeOK'
    BY <1>0, <1>1, <1>2 DEF ConditionalTokensTypeOK, DaiTypeOK
  <1>6. PhasesOK'
    BY <1>0, <1>1, <1>2, <1>3, <1>4 DEF PhasesOK, Phase
  <1>7. NoEarlyStake'
    BY <1>0, <1>1, <1>2, <1>4, NumeratorsPrepared DEF NoEarlyStake, Prepared
  <1>8. Solvent'
    <2>1. \A e \in Condition \ {c} : Owed(e)' = Owed(e)
      BY <1>1, <1>4, OwedByTable, OwedByTableNext
    <2>2. Owed(c) = 0
      BY <1>3, OwedByTable DEF OwedIn
    <2>3. Owed(c)' = 0
      <3>1. \A a \in Address, I \in IndexSet : positions[a][<<c, I>>] = 0
        BY <1>0, <1>1 DEF NoEarlyStake
      <3>2. ASSUME NEW I \in IndexSet
            PROVE  StakeIn(positions, c, I) = 0
        <4> DEFINE f == [a \in Address |-> positions[a][<<c, I>>]]
        <4>1. \A a \in Address : f[a] = 0
          BY <3>1
        <4> HIDE DEF f
        <4>2. SumFunctionOnSet(f, Address) = 0
          BY <4>1, CallersAssumption, SumZero
        <4> QED
          BY <4>2 DEF f, StakeIn
      <3>3. ASSUME NEW s \in Slot
            PROVE  SlotStakeIn(positions, c, s) = 0
        <4> DEFINE f == [I \in IndexSet |-> StakeIn(positions, c, I)]
        <4>1. \A I \in With(s) : f[I] = 0
          BY <3>2 DEF With
        <4> HIDE DEF f
        <4>2. SumFunctionOnSet(f, With(s)) = 0
          BY <4>1, IndexSetsFinite, SumZero
        <4> QED
          BY <4>2 DEF f, SlotStakeIn
      <3>4. Owed(c)' = OwedIn(positions, z, 0, c)
        BY <1>1, <1>3, <1>4, OwedByTableNext
      <3>5. OwedIn(positions, z, 0, c) = Max({SlotStakeIn(positions, c, s) : s \in Slot})
        BY <1>2, NumeratorsPrepared DEF OwedIn
      <3>6. \E s \in Slot : Max({SlotStakeIn(positions, c, t) : t \in Slot})
                              = SlotStakeIn(positions, c, s)
        BY <1>0, LargestSlotStake, TypesOfTokens
      <3> QED
        BY <3>3, <3>4, <3>5, <3>6
    <2>4. Owed(c)' + balanceOf[CT] <= Owed(c) + balanceOf'[CT]
      <3>1. balanceOf[CT] \in Nat
        BY <1>0, TypesOfTokens, ConditionalTokensAssumption
      <3> QED
        BY <1>1, <2>2, <2>3, <3>1
    <2> QED
      BY <1>0, <1>5, <1>6, <2>1, <2>4, SolventStep
  <1>9. DaiConserved'
    BY <1>0, <1>1 DEF DaiConserved
  <1> QED
    BY <1>5, <1>6, <1>7, <1>8, <1>9 DEF TokenInv, TokensConsistent

LEMMA ReportKeeps ==
    ASSUME TokenInv, NEW c \in Condition, NEW sender, NEW payouts \in [Slot -> Wad],
           ReportPayouts(sender, c, payouts), UNCHANGED daiVars
    PROVE  TokenInv'
  <1> DEFINE T == SumFunctionOnSet(payouts, Slot)
  <1>0. ConditionalTokensTypeOK /\ PhasesOK /\ NoEarlyStake /\ Solvent /\ DaiConserved
    BY DEF TokenInv, TokensConsistent
  <1>1. /\ Prepared(c) /\ payoutDenominator[c] = 0 /\ T \in 1..MaxUint
        /\ payoutNumerators' = [payoutNumerators EXCEPT ![c] = payouts]
        /\ payoutDenominator' = [payoutDenominator EXCEPT ![c] = T]
        /\ positions' = positions
        /\ balanceOf' = balanceOf /\ allowance' = allowance /\ totalSupply' = totalSupply
    BY DEF ReportPayouts, daiVars
  <1>2. payouts \in [Slot -> Nat] /\ T \in Wad /\ T \in Nat /\ T > 0
    BY <1>1, WadFunctions, DaiAssumption DEF Wad
  <1>3. payoutNumerators[c] \in [Slot -> Nat]
    BY <1>0, <1>1 DEF PhasesOK, Phase, Prepared
  <1>4. /\ payoutNumerators'[c] = payouts /\ payoutDenominator'[c] = T
        /\ \A e \in Condition \ {c} : payoutNumerators'[e] = payoutNumerators[e]
                                      /\ payoutDenominator'[e] = payoutDenominator[e]
    BY <1>0, <1>1, TypesOfTokens
  <1>5. ConditionalTokensTypeOK'
    <2> HIDE DEF T
    <2> QED
      BY <1>0, <1>1, <1>2 DEF ConditionalTokensTypeOK, DaiTypeOK
  <1>6. PhasesOK'
    <2>1. Phase(payouts, T)
      BY <1>2 DEF Phase
    <2> HIDE DEF T
    <2> QED
      BY <1>0, <1>4, <2>1 DEF PhasesOK
  <1>7. NoEarlyStake'
    BY <1>0, <1>1, <1>2, <1>4, NumeratorsPrepared DEF NoEarlyStake, Prepared
  <1>8. Solvent'
    <2>1. \A e \in Condition \ {c} : Owed(e)' = Owed(e)
      BY <1>1, <1>4, OwedByTable, OwedByTableNext
    <2>2. /\ Owed(c) = OwedIn(positions, payoutNumerators[c], 0, c)
          /\ Owed(c)' = OwedIn(positions, payouts, T, c)
      BY <1>1, <1>4, OwedByTable, OwedByTableNext
    <2>3. PICK m \in [Slot -> Nat] : m = payoutNumerators[c]
      BY <1>3
    <2>4. OwedIn(positions, payouts, T, c) <= OwedIn(positions, m, 0, c)
      BY <1>0, <1>2, ReportOwesAtMost, TypesOfTokens
    <2>5. Owed(c)' <= Owed(c)
      BY <2>2, <2>3, <2>4
    <2>6. Owed(c) \in Nat /\ Owed(c)' \in Nat /\ balanceOf[CT] \in Nat
      <3>1. Owed(c)' \in Nat
        BY <1>5, <1>6, OwedByTableNext, OwedNat
        DEF PhasesOK, ConditionalTokensTypeOK, PositionTable
      <3> QED
        BY <1>0, <3>1, OwedIsNat, TypesOfTokens, ConditionalTokensAssumption
    <2>7. Owed(c)' + balanceOf[CT] <= Owed(c) + balanceOf'[CT]
      BY <1>1, <2>5, <2>6
    <2> QED
      BY <1>0, <1>5, <1>6, <2>1, <2>7, SolventStep
  <1>9. DaiConserved'
    BY <1>0, <1>1 DEF DaiConserved
  <1> QED
    BY <1>5, <1>6, <1>7, <1>8, <1>9 DEF TokenInv, TokensConsistent

LEMMA AdjustedFacts ==
    ASSUME ConditionalTokensTypeOK, NEW a \in Address, NEW c \in Condition, NEW delta,
           InRange(Adjusted(a, c, delta)[a])
    PROVE  /\ Adjusted(a, c, delta) \in PositionTable
           /\ OnlyRow(positions, Adjusted(a, c, delta), a)
           /\ \A e \in Condition, I \in IndexSet :
                Adjusted(a, c, delta)[a][<<e, I>>] =
                  IF e = c /\ I \in DOMAIN delta THEN positions[a][<<e, I>>] + delta[I]
                  ELSE positions[a][<<e, I>>]
  <1> DEFINE row == [p \in Position |-> IF p[1] = c /\ p[2] \in DOMAIN delta
                                        THEN positions[a][p] + delta[p[2]]
                                        ELSE positions[a][p]]
  <1>1. Adjusted(a, c, delta) = [positions EXCEPT ![a] = row]
    BY DEF Adjusted
  <1>2. positions \in [Address -> [Position -> Wad]]
    BY DEF ConditionalTokensTypeOK
  <1>3. DOMAIN row = Position
    OBVIOUS
  <1>4. \A e \in Condition, I \in IndexSet :
          row[<<e, I>>] = IF e = c /\ I \in DOMAIN delta
                          THEN positions[a][<<e, I>>] + delta[I]
                          ELSE positions[a][<<e, I>>]
    BY DEF Position
  <1>5. row = [p \in Position |-> row[p]]
    OBVIOUS
  <1> HIDE DEF row
  <1>6. Adjusted(a, c, delta)[a] = row
    BY <1>1, <1>2
  <1>7. row \in [Position -> Wad]
    <2>1. \A p \in Position : row[p] \in Wad
      BY <1>6 DEF InRange
    <2> QED
      BY <1>5, <2>1
  <1>8. Adjusted(a, c, delta) \in PositionTable
    BY <1>1, <1>2, <1>7 DEF PositionTable
  <1>9. OnlyRow(positions, Adjusted(a, c, delta), a)
    BY <1>1, <1>2 DEF OnlyRow
  <1> QED
    BY <1>4, <1>6, <1>8, <1>9

\* Only the positions of condition c change.
OtherStakesKept(q, r, a, c) ==
  \A e \in Condition \ {c}, I \in IndexSet : r[a][<<e, I>>] = q[a][<<e, I>>]

LEMMA OtherConditionsKept ==
    ASSUME NEW q \in PositionTable, NEW r \in PositionTable, NEW a \in Address,
           OnlyRow(q, r, a), NEW c \in Condition, OtherStakesKept(q, r, a, c),
           NEW e \in Condition \ {c}, NEW n, NEW d
    PROVE  OwedIn(r, n, d, e) = OwedIn(q, n, d, e)
  <1>1. ASSUME NEW I \in IndexSet
        PROVE  StakeIn(r, e, I) = StakeIn(q, e, I)
    <2>1. StakeIn(r, e, I) + q[a][<<e, I>>] = StakeIn(q, e, I) + r[a][<<e, I>>]
      BY StakeChange
    <2>2. r[a][<<e, I>>] = q[a][<<e, I>>]
      BY DEF OtherStakesKept
    <2>3. StakeIn(r, e, I) \in Nat /\ StakeIn(q, e, I) \in Nat /\ q[a][<<e, I>>] \in Nat
      BY StakeNat, TableNat
    <2> QED
      BY <2>1, <2>2, <2>3
  <1> QED
    BY <1>1, OwedByStakes

\* The part that splits, merges and redemptions share: account a's positions of
\* a prepared condition c change, and the contract's balance with what it owes.
LEMMA PositionsChangeKeeps ==
    ASSUME TokenInv, NEW a \in Address, NEW c \in Condition, Prepared(c),
           UNCHANGED <<payoutNumerators, payoutDenominator>>,
           positions' \in PositionTable, OnlyRow(positions, positions', a),
           OtherStakesKept(positions, positions', a, c),
           DaiTypeOK', DaiConserved',
           Owed(c)' + balanceOf[CT] <= Owed(c) + balanceOf'[CT]
    PROVE  TokenInv'
  <1>0. ConditionalTokensTypeOK /\ PhasesOK /\ NoEarlyStake /\ Solvent
    BY DEF TokenInv, TokensConsistent
  <1>1. ConditionalTokensTypeOK' /\ PhasesOK'
    BY <1>0 DEF ConditionalTokensTypeOK, PhasesOK, PositionTable
  <1>2. NoEarlyStake'
    <2>1. SUFFICES ASSUME NEW e \in Condition, ~Prepared(e)', NEW b \in Address,
                          NEW I \in IndexSet
                   PROVE  positions'[b][<<e, I>>] = 0
      BY DEF NoEarlyStake
    <2>2. ~Prepared(e) /\ e # c
      BY <2>1 DEF Prepared
    <2>3. positions[b][<<e, I>>] = 0
      BY <1>0, <2>2 DEF NoEarlyStake
    <2>4. CASE b = a
      BY <2>2, <2>3, <2>4 DEF OtherStakesKept
    <2>5. CASE b # a
      BY <2>3, <2>5 DEF OnlyRow
    <2> QED
      BY <2>4, <2>5
  <1>3. \A e \in Condition \ {c} : Owed(e)' = Owed(e)
    <2>1. positions \in PositionTable
      BY <1>0, TypesOfTokens
    <2> QED
      BY <2>1, OwedByTable, OwedByTableNext, OtherConditionsKept
  <1>4. Solvent'
    BY <1>0, <1>1, <1>3, SolventStep
  <1> QED
    BY <1>1, <1>2, <1>4 DEF TokenInv, TokensConsistent

\* Splitting or merging along P changes the debt by what is locked or released.
LEMMA RegroupedOwes ==
    ASSUME NEW q \in PositionTable, NEW r \in PositionTable, NEW a \in Address,
           OnlyRow(q, r, a), NEW c \in Condition, NEW P, ValidPartition(P),
           NEW w \in Nat, NEW n \in [Slot -> Nat], NEW d, Phase(n, d)
    PROVE  /\ Regrouped(q, r, a, c, P, w) =>
                OwedIn(r, n, d, c) = OwedIn(q, n, d, c) + (IF UNION P = Slot THEN w ELSE 0)
           /\ Regrouped(q, r, a, c, P, -w) =>
                OwedIn(q, n, d, c) = OwedIn(r, n, d, c) + (IF UNION P = Slot THEN w ELSE 0)
  <1> DEFINE k == IF UNION P = Slot THEN w ELSE 0
  <1>0. k \in Nat
    OBVIOUS
  <1>1. ASSUME Regrouped(q, r, a, c, P, w)
        PROVE  OwedIn(r, n, d, c) = OwedIn(q, n, d, c) + k
    <2>1. \A s \in Slot : SlotStakeIn(r, c, s) = SlotStakeIn(q, c, s) + k
      BY <1>1, RegroupedStakes
    <2> HIDE DEF k
    <2> QED
      BY <1>0, <2>1, OwedShifts
  <1>2. ASSUME Regrouped(q, r, a, c, P, -w)
        PROVE  OwedIn(q, n, d, c) = OwedIn(r, n, d, c) + k
    <2>1. ASSUME NEW s \in Slot
          PROVE  SlotStakeIn(q, c, s) = SlotStakeIn(r, c, s) + k
      <3>1. -w \in Int
        OBVIOUS
      <3>2. SlotStakeIn(r, c, s) = SlotStakeIn(q, c, s) + (IF UNION P = Slot THEN -w ELSE 0)
        BY <1>2, <3>1, RegroupedStakes
      <3>3. SlotStakeIn(r, c, s) \in Nat /\ SlotStakeIn(q, c, s) \in Nat
        BY StakeNat
      <3> QED
        BY <3>2, <3>3
    <2> HIDE DEF k
    <2> QED
      BY <1>0, <2>1, OwedShifts
  <1> QED
    BY <1>1, <1>2

LEMMA SplitKeeps ==
    ASSUME TokenInv, NEW sender \in Address \ {CT}, NEW c \in Condition, NEW P,
           NEW amount \in Nat, SplitPosition(sender, c, P, amount)
    PROVE  TokenInv'
  <1> DEFINE whole == UNION P
             minted == [I \in P |-> amount]
             partial == [I \in P \cup {whole} |-> IF I = whole THEN -amount ELSE amount]
             change == IF whole = Slot THEN minted ELSE partial
  <1>0. ConditionalTokensTypeOK /\ PhasesOK /\ DaiConserved /\ DaiTypeOK
        /\ positions \in PositionTable
    BY TypesOfTokens DEF TokenInv, TokensConsistent
  <1>1. /\ Prepared(c) /\ ValidPartition(P)
        /\ IF whole = Slot THEN TransferFrom(CT, sender, CT, amount) ELSE UNCHANGED daiVars
        /\ InRange(Adjusted(sender, c, change)[sender])
        /\ positions' = Adjusted(sender, c, change)
        /\ UNCHANGED <<payoutNumerators, payoutDenominator>>
    BY DEF SplitPosition
  <1>2. /\ positions' \in PositionTable /\ OnlyRow(positions, positions', sender)
        /\ \A e \in Condition, I \in IndexSet :
             positions'[sender][<<e, I>>] =
               IF e = c /\ I \in DOMAIN change THEN positions[sender][<<e, I>>] + change[I]
               ELSE positions[sender][<<e, I>>]
    <2> HIDE DEF change
    <2> QED
      BY <1>0, <1>1, AdjustedFacts
  <1>3. Regrouped(positions, positions', sender, c, P, amount)
    <2>1. ASSUME NEW I \in IndexSet
          PROVE  positions'[sender][<<c, I>>] = positions[sender][<<c, I>>]
                   + (IF I \in P THEN amount
                      ELSE IF whole # Slot /\ I = whole THEN -amount ELSE 0)
      <3>1. positions[sender][<<c, I>>] \in Nat
        BY <1>0, TableNat
      <3>2. positions'[sender][<<c, I>>] =
              IF I \in DOMAIN change THEN positions[sender][<<c, I>>] + change[I]
              ELSE positions[sender][<<c, I>>]
        BY <1>2
      <3>3. whole \notin P
        BY <1>1, WholeIsNoPart
      <3>4. /\ I \in DOMAIN change <=> I \in P \/ (whole # Slot /\ I = whole)
            /\ I \in P => change[I] = amount
            /\ whole # Slot /\ I = whole => change[I] = -amount
        BY <3>3
      <3> HIDE DEF change, whole
      <3> QED
        BY <3>1, <3>2, <3>3, <3>4
    <2> QED
      BY <2>1 DEF Regrouped
  <1>4. OtherStakesKept(positions, positions', sender, c)
    BY <1>2 DEF OtherStakesKept
  <1>5. /\ DaiTypeOK' /\ DaiConserved'
        /\ balanceOf'[CT] = balanceOf[CT] + (IF whole = Slot THEN amount ELSE 0)
        /\ balanceOf[CT] \in Nat
    <2>0. balanceOf[CT] \in Nat
      BY <1>0, TypesOfTokens, ConditionalTokensAssumption
    <2>1. CASE whole = Slot
      <3>1. TransferFrom(CT, sender, CT, amount)
        BY <1>1, <2>1
      <3>2. /\ DaiTypeOK' /\ DaiConserved'
            /\ \A x \in Address : balanceOf'[x] = BalanceAfter(sender, CT, amount, x)
        BY <1>0, <3>1, TransferFromKeeps, ConditionalTokensAssumption
      <3> QED
        BY <2>0, <2>1, <3>2, ConditionalTokensAssumption DEF BalanceAfter
    <2>2. CASE whole # Slot
      BY <1>0, <1>1, <2>0, <2>2 DEF daiVars, DaiTypeOK, DaiConserved
    <2> QED
      BY <2>1, <2>2
  <1>6. PICK n \in [Slot -> Nat], d \in Nat :
          n = payoutNumerators[c] /\ d = payoutDenominator[c] /\ Phase(n, d)
    BY <1>0, <1>1 DEF PhasesOK, Phase, Prepared
  <1>7. Owed(c) = OwedIn(positions, n, d, c) /\ Owed(c)' = OwedIn(positions', n, d, c)
    BY <1>1, <1>6, OwedByTable, OwedByTableNext
  <1>8. OwedIn(positions', n, d, c)
          = OwedIn(positions, n, d, c) + (IF whole = Slot THEN amount ELSE 0)
    BY <1>0, <1>1, <1>2, <1>3, <1>6, RegroupedOwes
  <1>9. OwedIn(positions, n, d, c) \in Nat
    BY <1>0, <1>6, OwedNat
  <1>10. Owed(c)' + balanceOf[CT] <= Owed(c) + balanceOf'[CT]
    BY <1>5, <1>7, <1>8, <1>9
  <1> QED
    BY <1>1, <1>2, <1>4, <1>5, <1>10, PositionsChangeKeeps

LEMMA MergeKeeps ==
    ASSUME TokenInv, NEW sender \in Address \ {CT}, NEW c \in Condition, NEW P,
           NEW amount \in Nat, MergePositions(sender, c, P, amount)
    PROVE  TokenInv'
  <1> DEFINE whole == UNION P
             burnt == [I \in P |-> -amount]
             partial == [I \in P \cup {whole} |-> IF I = whole THEN amount ELSE -amount]
             change == IF whole = Slot THEN burnt ELSE partial
  <1>0. ConditionalTokensTypeOK /\ PhasesOK /\ DaiConserved /\ DaiTypeOK
        /\ positions \in PositionTable
    BY TypesOfTokens DEF TokenInv, TokensConsistent
  <1>1. /\ Prepared(c) /\ ValidPartition(P)
        /\ IF whole = Slot THEN TransferFrom(CT, CT, sender, amount) ELSE UNCHANGED daiVars
        /\ InRange(Adjusted(sender, c, change)[sender])
        /\ positions' = Adjusted(sender, c, change)
        /\ UNCHANGED <<payoutNumerators, payoutDenominator>>
    BY DEF MergePositions
  <1>2. /\ positions' \in PositionTable /\ OnlyRow(positions, positions', sender)
        /\ \A e \in Condition, I \in IndexSet :
             positions'[sender][<<e, I>>] =
               IF e = c /\ I \in DOMAIN change THEN positions[sender][<<e, I>>] + change[I]
               ELSE positions[sender][<<e, I>>]
    <2> HIDE DEF change
    <2> QED
      BY <1>0, <1>1, AdjustedFacts
  <1>3. Regrouped(positions, positions', sender, c, P, -amount)
    <2>1. ASSUME NEW I \in IndexSet
          PROVE  positions'[sender][<<c, I>>] = positions[sender][<<c, I>>]
                   + (IF I \in P THEN -amount
                      ELSE IF whole # Slot /\ I = whole THEN -(-amount) ELSE 0)
      <3>1. positions[sender][<<c, I>>] \in Nat
        BY <1>0, TableNat
      <3>2. positions'[sender][<<c, I>>] =
              IF I \in DOMAIN change THEN positions[sender][<<c, I>>] + change[I]
              ELSE positions[sender][<<c, I>>]
        BY <1>2
      <3>3. whole \notin P
        BY <1>1, WholeIsNoPart
      <3>4. /\ I \in DOMAIN change <=> I \in P \/ (whole # Slot /\ I = whole)
            /\ I \in P => change[I] = -amount
            /\ whole # Slot /\ I = whole => change[I] = amount
        BY <3>3
      <3> HIDE DEF change, whole
      <3> QED
        BY <3>1, <3>2, <3>3, <3>4
    <2> QED
      BY <2>1 DEF Regrouped
  <1>4. OtherStakesKept(positions, positions', sender, c)
    BY <1>2 DEF OtherStakesKept
  <1>5. /\ DaiTypeOK' /\ DaiConserved'
        /\ balanceOf[CT] = balanceOf'[CT] + (IF whole = Slot THEN amount ELSE 0)
        /\ balanceOf[CT] \in Nat /\ balanceOf'[CT] \in Int
    <2>0. balanceOf[CT] \in Nat
      BY <1>0, TypesOfTokens, ConditionalTokensAssumption
    <2>1. CASE whole = Slot
      <3>1. TransferFrom(CT, CT, sender, amount)
        BY <1>1, <2>1
      <3>2. /\ DaiTypeOK' /\ DaiConserved'
            /\ \A x \in Address : balanceOf'[x] = BalanceAfter(CT, sender, amount, x)
        BY <1>0, <3>1, TransferFromKeeps, ConditionalTokensAssumption
      <3> QED
        BY <2>0, <2>1, <3>2, ConditionalTokensAssumption DEF BalanceAfter
    <2>2. CASE whole # Slot
      BY <1>0, <1>1, <2>0, <2>2 DEF daiVars, DaiTypeOK, DaiConserved
    <2> QED
      BY <2>1, <2>2
  <1>6. PICK n \in [Slot -> Nat], d \in Nat :
          n = payoutNumerators[c] /\ d = payoutDenominator[c] /\ Phase(n, d)
    BY <1>0, <1>1 DEF PhasesOK, Phase, Prepared
  <1>7. Owed(c) = OwedIn(positions, n, d, c) /\ Owed(c)' = OwedIn(positions', n, d, c)
    BY <1>1, <1>6, OwedByTable, OwedByTableNext
  <1>8. OwedIn(positions, n, d, c)
          = OwedIn(positions', n, d, c) + (IF whole = Slot THEN amount ELSE 0)
    BY <1>0, <1>1, <1>2, <1>3, <1>6, RegroupedOwes
  <1>9. OwedIn(positions, n, d, c) \in Nat /\ OwedIn(positions', n, d, c) \in Nat
    BY <1>0, <1>2, <1>6, OwedNat
  <1>10. Owed(c)' + balanceOf[CT] <= Owed(c) + balanceOf'[CT]
    BY <1>5, <1>7, <1>8, <1>9
  <1> QED
    BY <1>1, <1>2, <1>4, <1>5, <1>10, PositionsChangeKeeps

\* A redemption takes the sender's stakes in the index sets it names, and only those.
LEMMA RedeemedFacts ==
    ASSUME ConditionalTokensTypeOK, NEW sender \in Address, NEW c \in Condition, NEW F,
           RedeemPositions(sender, c, F)
    PROVE  /\ positions' \in PositionTable /\ OnlyRow(positions, positions', sender)
           /\ \A e \in Condition, I \in IndexSet :
                positions'[sender][<<e, I>>] =
                  IF e = c /\ I \in F THEN 0 ELSE positions[sender][<<e, I>>]
  <1> DEFINE gone == [I \in F |-> -positions[sender][<<c, I>>]]
  <1>0. positions \in PositionTable
    BY TypesOfTokens
  <1>1. InRange(Adjusted(sender, c, gone)[sender])
    <2>1. ASSUME NEW p \in Position
          PROVE  (IF p[1] = c /\ p[2] \in DOMAIN gone
                  THEN positions[sender][p] + gone[p[2]]
                  ELSE positions[sender][p]) \in Wad
      <3>1. positions[sender][p] \in Wad /\ positions[sender][p] \in Int /\ 0 \in Wad
        BY <1>0, DaiAssumption DEF PositionTable, Wad
      <3>2. CASE p[1] = c /\ p[2] \in F
        <4>1. p = <<c, p[2]>>
          BY <3>2 DEF Position
        <4>2. gone[p[2]] = -positions[sender][p]
          BY <3>2, <4>1
        <4> QED
          BY <3>1, <3>2, <4>2
      <3>3. CASE ~(p[1] = c /\ p[2] \in F)
        BY <3>1, <3>3
      <3> QED
        BY <3>2, <3>3
    <2> DEFINE row == [p \in Position |-> IF p[1] = c /\ p[2] \in DOMAIN gone
                                          THEN positions[sender][p] + gone[p[2]]
                                          ELSE positions[sender][p]]
    <2> HIDE DEF gone
    <2>2. Adjusted(sender, c, gone)[sender] = row
      BY <1>0 DEF Adjusted, PositionTable
    <2> QED
      BY <2>1, <2>2 DEF InRange
  <1>2. /\ positions' \in PositionTable /\ OnlyRow(positions, positions', sender)
        /\ \A e \in Condition, I \in IndexSet :
             positions'[sender][<<e, I>>] =
               IF e = c /\ I \in DOMAIN gone THEN positions[sender][<<e, I>>] + gone[I]
               ELSE positions[sender][<<e, I>>]
    <2>1. positions' = Adjusted(sender, c, gone)
      BY DEF RedeemPositions
    <2> HIDE DEF gone
    <2> QED
      BY <1>1, <2>1, AdjustedFacts
  <1>3. ASSUME NEW e \in Condition, NEW I \in IndexSet
        PROVE  positions'[sender][<<e, I>>] =
                 IF e = c /\ I \in F THEN 0 ELSE positions[sender][<<e, I>>]
    <2>1. positions[sender][<<e, I>>] \in Nat
      BY <1>0, TableNat
    <2>2. CASE e = c /\ I \in F
      <3>1. I \in DOMAIN gone /\ gone[I] = -positions[sender][<<e, I>>]
        BY <2>2
      <3> QED
        BY <1>2, <2>1, <2>2, <3>1
    <2>3. CASE ~(e = c /\ I \in F)
      <3>1. DOMAIN gone = F
        OBVIOUS
      <3> QED
        BY <1>2, <2>3, <3>1
    <2> QED
      BY <2>2, <2>3
  <1> QED
    BY <1>2, <1>3

LEMMA RedeemKeeps ==
    ASSUME TokenInv, NEW sender \in Address \ {CT}, NEW c \in Condition, NEW F,
           RedeemPositions(sender, c, F)
    PROVE  TokenInv'
  <1> DEFINE gone == [I \in F |-> -positions[sender][<<c, I>>]]
             pay == [I \in F |-> Payout(sender, c, I)]
             total == SumFunctionOnSet(pay, F)
  <1>0. ConditionalTokensTypeOK /\ PhasesOK /\ DaiConserved /\ DaiTypeOK
        /\ positions \in PositionTable
    BY TypesOfTokens DEF TokenInv, TokensConsistent
  <1>1. /\ payoutDenominator[c] > 0 /\ F \subseteq IndexSet
        /\ IF total > 0 THEN TransferFrom(CT, CT, sender, total) ELSE UNCHANGED daiVars
        /\ positions' = Adjusted(sender, c, gone)
        /\ UNCHANGED <<payoutNumerators, payoutDenominator>>
    BY DEF RedeemPositions
  <1>2. PICK n \in [Slot -> Nat], d \in Nat \ {0} :
          n = payoutNumerators[c] /\ d = payoutDenominator[c] /\ Phase(n, d)
    BY <1>0, <1>1 DEF PhasesOK, Phase
  <1>3. Prepared(c)
    BY <1>2, NumeratorsPrepared DEF Prepared
  <1>5. /\ positions' \in PositionTable /\ OnlyRow(positions, positions', sender)
        /\ \A e \in Condition, I \in IndexSet :
             positions'[sender][<<e, I>>] =
               IF e = c /\ I \in F THEN 0 ELSE positions[sender][<<e, I>>]
    BY <1>0, <1>1, RedeemedFacts
  <1>6. Redeemed(positions, positions', sender, c, F)
    BY <1>5 DEF Redeemed
  <1>7. OtherStakesKept(positions, positions', sender, c)
    BY <1>5 DEF OtherStakesKept
  <1>8. pay = PaidFor(positions, sender, c, n, d, F)
    BY <1>2 DEF PaidFor, Payout, Numerator
  <1>9. /\ total \in Nat
        /\ OwedIn(positions', n, d, c) + total <= OwedIn(positions, n, d, c)
    BY <1>0, <1>1, <1>2, <1>5, <1>6, <1>8, RedeemedOwes
  <1> HIDE DEF total
  <1>10. /\ DaiTypeOK' /\ DaiConserved'
         /\ balanceOf[CT] = balanceOf'[CT] + total
         /\ balanceOf[CT] \in Nat /\ balanceOf'[CT] \in Int
    <2>0. balanceOf[CT] \in Nat
      BY <1>0, TypesOfTokens, ConditionalTokensAssumption
    <2>1. CASE total > 0
      <3>1. TransferFrom(CT, CT, sender, total)
        BY <1>1, <2>1
      <3>2. /\ DaiTypeOK' /\ DaiConserved'
            /\ \A x \in Address : balanceOf'[x] = BalanceAfter(CT, sender, total, x)
        BY <1>0, <1>9, <3>1, TransferFromKeeps, ConditionalTokensAssumption
      <3> QED
        BY <1>9, <2>0, <2>1, <3>2, ConditionalTokensAssumption DEF BalanceAfter
    <2>2. CASE ~(total > 0)
      <3>1. total = 0
        BY <1>9, <2>2
      <3> QED
        BY <1>0, <1>1, <2>0, <2>2, <3>1 DEF daiVars, DaiTypeOK, DaiConserved
    <2> QED
      BY <2>1, <2>2
  <1>11. Owed(c) = OwedIn(positions, n, d, c) /\ Owed(c)' = OwedIn(positions', n, d, c)
    BY <1>1, <1>2, OwedByTable, OwedByTableNext
  <1>12. OwedIn(positions, n, d, c) \in Nat /\ OwedIn(positions', n, d, c) \in Nat
    BY <1>0, <1>2, <1>5, OwedNat
  <1>13. Owed(c)' + balanceOf[CT] <= Owed(c) + balanceOf'[CT]
    BY <1>9, <1>10, <1>11, <1>12
  <1> QED
    BY <1>1, <1>3, <1>5, <1>7, <1>10, <1>13, PositionsChangeKeeps

LEMMA TransferredFacts ==
    ASSUME NEW q \in PositionTable, NEW a \in Address, NEW b \in Address,
           NEW p \in Position, NEW w \in Nat, q[a][p] >= w,
           InRange(Transferred(q, a, b, p, w)[b])
    PROVE  /\ Transferred(q, a, b, p, w) \in PositionTable
           /\ \A x \in Address, y \in Position :
                Transferred(q, a, b, p, w)[x][y] =
                  IF a = b \/ y # p \/ x \notin {a, b} THEN q[x][y]
                  ELSE IF x = a THEN q[x][y] - w
                  ELSE q[x][y] + w
  <1> DEFINE t == [q EXCEPT ![a][p] = @ - w]
             r == Transferred(q, a, b, p, w)
  <1>0. \A x \in Address, y \in Position : q[x][y] \in Int /\ q[x][y] \in Wad
    BY DaiAssumption DEF PositionTable, Wad
  <1>1. /\ t \in [Address -> [Position -> Int]]
        /\ \A x \in Address, y \in Position :
             t[x][y] = IF x = a /\ y = p THEN q[x][y] - w ELSE q[x][y]
    BY DaiAssumption DEF PositionTable, Wad
  <1>2. r = [t EXCEPT ![b][p] = @ + w]
    BY DEF Transferred
  <1> HIDE DEF t, r
  <1>3. /\ r \in [Address -> [Position -> Int]]
        /\ \A x \in Address, y \in Position :
             r[x][y] = IF x = b /\ y = p THEN t[x][y] + w ELSE t[x][y]
    BY <1>1, <1>2
  <1>4. ASSUME NEW x \in Address, NEW y \in Position
        PROVE  /\ r[x][y] = IF a = b \/ y # p \/ x \notin {a, b} THEN q[x][y]
                            ELSE IF x = a THEN q[x][y] - w ELSE q[x][y] + w
               /\ r[x][y] \in Wad
    <2>1. q[x][y] \in Int /\ q[x][y] \in Wad
      BY <1>0
    <2>2. r[x][y] = IF a = b \/ y # p \/ x \notin {a, b} THEN q[x][y]
                    ELSE IF x = a THEN q[x][y] - w ELSE q[x][y] + w
      BY <1>1, <1>3, <2>1
    <2>3. CASE x = b
      BY <2>2, <2>3 DEF InRange, r
    <2>4. CASE x # b
      BY <2>1, <2>2, <2>4, DaiAssumption DEF Wad
    <2> QED
      BY <2>2, <2>3, <2>4
  <1>5. r \in PositionTable
    BY <1>3, <1>4 DEF PositionTable
  <1> QED
    BY <1>4, <1>5 DEF r

LEMMA PositionTransferKeeps ==
    ASSUME TokenInv, NEW sender \in Address, NEW to \in Address, NEW p \in Position,
           NEW amount \in Nat, SafeTransferFrom(sender, to, p, amount), UNCHANGED daiVars
    PROVE  TokenInv'
  <1>0. ConditionalTokensTypeOK /\ PhasesOK /\ NoEarlyStake /\ Solvent /\ DaiConserved
        /\ DaiTypeOK /\ positions \in PositionTable
    BY TypesOfTokens DEF TokenInv, TokensConsistent
  <1>1. /\ positions[sender][p] >= amount
        /\ InRange(Transferred(positions, sender, to, p, amount)[to])
        /\ positions' = Transferred(positions, sender, to, p, amount)
        /\ UNCHANGED <<payoutNumerators, payoutDenominator>>
        /\ balanceOf' = balanceOf /\ allowance' = allowance /\ totalSupply' = totalSupply
    BY DEF SafeTransferFrom, Transferred, daiVars
  <1>2. /\ positions' \in PositionTable
        /\ \A x \in Address, y \in Position :
             positions'[x][y] =
               IF sender = to \/ y # p \/ x \notin {sender, to} THEN positions[x][y]
               ELSE IF x = sender THEN positions[x][y] - amount
               ELSE positions[x][y] + amount
    BY <1>0, <1>1, TransferredFacts
  <1>3. ConditionalTokensTypeOK' /\ PhasesOK' /\ DaiConserved'
    BY <1>0, <1>1, <1>2 DEF ConditionalTokensTypeOK, DaiTypeOK, PhasesOK, PositionTable,
       DaiConserved
  <1>4. NoEarlyStake'
    <2>1. SUFFICES ASSUME NEW e \in Condition, ~Prepared(e)', NEW b \in Address,
                          NEW I \in IndexSet
                   PROVE  positions'[b][<<e, I>>] = 0
      BY DEF NoEarlyStake
    <2>2. \A x \in Address : positions[x][<<e, I>>] = 0
      BY <1>0, <1>1, <2>1 DEF NoEarlyStake, Prepared
    <2> DEFINE y == <<e, I>>
    <2>3. y \in Position /\ \A x \in Address : positions[x][y] = 0
      BY <2>2 DEF Position
    <2> HIDE DEF y
    <2>4. y = p => amount = 0
      BY <1>1, <2>3
    <2>5. positions'[b][y] = 0
      BY <1>2, <2>3, <2>4
    <2> QED
      BY <2>5 DEF y
  <1>5. \A e \in Condition : Owed(e)' = Owed(e)
    <2>1. ASSUME NEW e \in Condition
          PROVE  Owed(e)' = Owed(e)
      <3>1. \A I \in IndexSet : StakeIn(positions', e, I) = StakeIn(positions, e, I)
        BY <1>0, <1>1, <1>2, TransferredStakes
      <3> QED
        BY <1>1, <3>1, OwedByStakes, OwedByTable, OwedByTableNext
    <2> QED
      BY <2>1
  <1>6. Solvent'
    <2>1. [e \in Condition |-> Owed(e)'] = [e \in Condition |-> Owed(e)]
      BY <1>5
    <2> QED
      BY <1>0, <1>1, <2>1 DEF Solvent
  <1> QED
    BY <1>3, <1>4, <1>6 DEF TokenInv, TokensConsistent

-----------------------------------------------------------------------------
LEMMA InitialTokens ==
    ASSUME CollateralInit
    PROVE  TokenInv
  <1>1. ConditionalTokensTypeOK
    BY DaiAssumption
    DEF CollateralInit, DaiInit, ConditionalTokensInit, ConditionalTokensTypeOK, DaiTypeOK, Wad
  <1>2. DaiConserved
    <2>1. \A a \in Address : balanceOf[a] = 0
      BY DEF CollateralInit, DaiInit
    <2>2. SumFunctionOnSet(balanceOf, Address) = 0
      BY <2>1, CallersAssumption, SumZero
    <2> QED
      BY <2>2 DEF DaiConserved, CollateralInit, DaiInit
  <1>3. \A c \in Condition : payoutNumerators[c] = Unprepared /\ payoutDenominator[c] = 0
    BY DEF CollateralInit, ConditionalTokensInit
  <1>4. PhasesOK
    BY <1>3 DEF PhasesOK, Phase
  <1>5. NoEarlyStake
    BY DEF NoEarlyStake, CollateralInit, ConditionalTokensInit, Position
  <1>6. Solvent
    <2> DEFINE f == [c \in Condition |-> Owed(c)]
    <2>1. \A c \in Condition : f[c] = 0
      BY <1>3, OwedByTable DEF OwedIn
    <2>2. Solvent <=> balanceOf[CT] >= SumFunctionOnSet(f, Condition)
      BY DEF Solvent
    <2>3. balanceOf[CT] = 0
      BY ConditionalTokensAssumption DEF CollateralInit, DaiInit
    <2> HIDE DEF f
    <2>4. SumFunctionOnSet(f, Condition) = 0
      BY <2>1, CallersAssumption, SumZero
    <2> QED
      BY <2>2, <2>3, <2>4
  <1> QED
    BY <1>1, <1>2, <1>4, <1>5, <1>6 DEF TokenInv, TokensConsistent

LEMMA TokenStep ==
    ASSUME TokenInv, ConditionalTokensNext
    PROVE  TokenInv'
  <1>0. /\ DaiTypeOK /\ DaiConserved
        /\ User \subseteq Address /\ CT \notin User /\ CT \in Address /\ Spender \subseteq Address
        /\ Amount \subseteq Wad /\ Amount \subseteq Nat
        /\ \A x \in Address : balanceOf[x] \in Nat
    BY CallersAssumption, ConditionalTokensAssumption, DaiAssumption, TypesOfTokens
    DEF TokenInv, TokensConsistent, Wad
  <1>1. CASE DaiStep
    <2>0. UNCHANGED ctVars
      BY <1>1 DEF DaiStep
    <2>1. ASSUME NEW u \in User, NEW w \in Amount, Mint(u, w)
          PROVE  DaiTypeOK' /\ DaiConserved' /\ balanceOf[CT] <= balanceOf'[CT]
      BY <1>0, <2>1, MintKeeps
    <2>2. ASSUME NEW u \in User, NEW v \in User, NEW w \in Amount, Burn(u, v, w)
          PROVE  DaiTypeOK' /\ DaiConserved' /\ balanceOf[CT] <= balanceOf'[CT]
      BY <1>0, <2>2, BurnKeeps
    <2>3. ASSUME NEW u \in User, NEW a \in Spender, NEW w \in Amount, Approve(u, a, w)
          PROVE  DaiTypeOK' /\ DaiConserved' /\ balanceOf[CT] <= balanceOf'[CT]
      BY <1>0, <2>3, ApproveKeeps
    <2>4. ASSUME NEW u \in User, NEW a \in Spender, NEW allowed \in BOOLEAN,
                 Permit(u, a, allowed)
          PROVE  DaiTypeOK' /\ DaiConserved' /\ balanceOf[CT] <= balanceOf'[CT]
      <3>1. PICK w \in Wad : Approve(u, a, w)
        BY <2>4, DaiAssumption DEF Permit, Wad
      <3> QED
        BY <1>0, <3>1, ApproveKeeps
    <2>5. ASSUME NEW u \in User, NEW src \in User, NEW dst \in Address, NEW w \in Amount,
                 TransferFrom(u, src, dst, w)
          PROVE  DaiTypeOK' /\ DaiConserved' /\ balanceOf[CT] <= balanceOf'[CT]
      <3>1. /\ DaiTypeOK' /\ DaiConserved'
            /\ \A x \in Address : balanceOf'[x] = BalanceAfter(src, dst, w, x)
        BY <1>0, <2>5, TransferFromKeeps
      <3>2. w \in Nat /\ src # CT
        BY <1>0
      <3> QED
        BY <1>0, <3>1, <3>2 DEF BalanceAfter
    <2>6. DaiTypeOK' /\ DaiConserved' /\ balanceOf[CT] <= balanceOf'[CT]
      BY <1>1, <2>1, <2>2, <2>3, <2>4, <2>5 DEF DaiStep
    <2> QED
      BY <2>0, <2>6, DaiCallKeeps
  <1>2. CASE Prepare
    BY <1>2, PrepareKeeps DEF Prepare
  <1>3. CASE ReportStep
    BY <1>3, ReportKeeps, CallersAssumption DEF ReportStep
  <1>4. CASE Split
    <2>1. PICK u \in User, c \in Condition, P \in Partition, w \in Amount :
            SplitPosition(u, c, P, w)
      BY <1>4 DEF Split
    <2> QED
      BY <1>0, <2>1, SplitKeeps
  <1>5. CASE Merge
    <2>1. PICK u \in User, c \in Condition, P \in Partition, w \in Amount :
            MergePositions(u, c, P, w)
      BY <1>5 DEF Merge
    <2> QED
      BY <1>0, <2>1, MergeKeeps
  <1>6. CASE Redeem
    <2>1. PICK u \in User, c \in Condition, S \in Redeemable : RedeemPositions(u, c, S)
      BY <1>6 DEF Redeem
    <2> QED
      BY <1>0, <2>1, RedeemKeeps
  <1>7. CASE PositionTransfer
    <2>1. PICK u \in User, v \in User, p \in Position, w \in Amount :
            SafeTransferFrom(u, v, p, w)
      BY <1>7 DEF PositionTransfer
    <2>2. UNCHANGED daiVars
      BY <1>7 DEF PositionTransfer
    <2> QED
      BY <1>0, <2>1, <2>2, PositionTransferKeeps
  <1> QED
    BY <1>1, <1>2, <1>3, <1>4, <1>5, <1>6, <1>7 DEF ConditionalTokensNext

LEMMA TokenStutter ==
    ASSUME TokenInv, UNCHANGED <<daiVars, ctVars>>
    PROVE  TokenInv'
  <1>1. /\ DaiTypeOK /\ DaiConserved /\ balanceOf[CT] \in Nat
        /\ balanceOf' = balanceOf /\ allowance' = allowance /\ totalSupply' = totalSupply
    BY TypesOfTokens, ConditionalTokensAssumption DEF TokenInv, TokensConsistent, daiVars
  <1>2. DaiTypeOK' /\ DaiConserved' /\ balanceOf[CT] <= balanceOf'[CT]
    BY <1>1 DEF DaiTypeOK, DaiConserved
  <1> QED
    BY <1>2, DaiCallKeeps

\* In every state of every run of the conditional tokens, with any number of
\* users calling Dai and the contract in any order and any reports by the oracles,
\* Dai is conserved and the contract's collateral covers what all positions
\* together can cost: no split, merge, transfer or rounded redemption ever leaves
\* it unable to pay (ConditionalToken.sol splitPosition, mergePositions,
\* reportPayouts, redeemPositions; Dai.sol).
THEOREM TokensSafe == ConditionalTokensSpec => []TokensConsistent
  <1>1. CollateralInit => TokenInv
    BY InitialTokens
  <1>2. TokenInv /\ [ConditionalTokensNext]_<<daiVars, ctVars>> => TokenInv'
    BY TokenStep, TokenStutter
  <1>3. TokenInv => TokensConsistent
    BY DEF TokenInv
  <1> QED
    BY <1>1, <1>2, <1>3, PTL DEF ConditionalTokensSpec

-----------------------------------------------------------------------------
(***************************************************************************)
(* Proof that the funding of a project stays in order (EscrowConsistent)   *)
(* through every interleaving of the pages of any number of funders and    *)
(* auditors, and that the conditional tokens it uses stay solvent.         *)
(***************************************************************************)

(* The inductive invariant.  Nobody but the escrow and the bidder holds      *)
(* positions; a report gives everything to approval; and the approval tokens *)
(* of a milestone that exist, or that a session is about to mint, never      *)
(* exceed what the bidder may still be paid for it.                          *)

Approval == [x \in Slot |-> IF x = 1 THEN 1 ELSE 0]

Reported == {c \in Condition : payoutDenominator[c] > 0}

OnlyProjectHolds ==
  \A a \in Address \ {Holder, Bidder}, p \in Position : positions[a][p] = 0

ReportedApproved ==
  \A c \in Reported : payoutDenominator[c] = 1 /\ payoutNumerators[c] = Approval

\* A session between prepareCondition and callSplitPosition for c.
AtSplit(s, c) == setting[s] = "split" /\ milestone[s] = c

SplitsPrepared ==
  \A s \in AuditorSession, c \in Condition : AtSplit(s, c) => Prepared(c)

OneSplitEach ==
  \A s, t \in AuditorSession, c \in Condition : AtSplit(s, c) /\ AtSplit(t, c) => s = t

Held(c) == positions[Holder][<<c, {1}>>] + positions[Bidder][<<c, {1}>>]

Awaited(c) == IF \E s \in AuditorSession : AtSplit(s, c) THEN Budget[c] ELSE 0

Claim(c) == Held(c) + Awaited(c)

ClaimsBounded == \A c \in Condition \ Reported : Claim(c) <= Budget[c]

PaidAndClaimed ==
  balanceOf[Bidder] + SumFunctionOnSet([c \in Condition |-> Claim(c)], Reported)
    <= SumFunctionOnSet(Budget, Reported)

MoneyInv == EscrowAccountsAgree /\ FundingConserved /\ totalSupply <= MaxSupply

ClaimInv ==
  /\ OnlyProjectHolds /\ ReportedApproved
  /\ SplitsPrepared /\ OneSplitEach
  /\ ClaimsBounded /\ PaidAndClaimed

EscrowInv == TokenInv /\ EscrowTypeOK /\ MoneyInv /\ ClaimInv

-----------------------------------------------------------------------------
(* The accounts and the slots.                                              *)

LEMMA Parties ==
    /\ {Token, Holder, Zero, CT} \subseteq Address
    /\ {Token, Holder, Zero, CT} \cap User = {}
    /\ Token # Holder /\ Token # CT /\ Holder # CT
    /\ User \subseteq Address
    /\ Bidder \in User /\ Owner \in User /\ Auditor \in User
    /\ Funder \subseteq User /\ AuditorSession \subseteq User /\ Bidder \notin Funder
  BY EscrowAssumption, CallersAssumption

LEMMA TwoSlots ==
    /\ Slot = {1, 2} /\ {1} \in IndexSet /\ {2} \in IndexSet
    /\ IndexSet = {{1}, {2}}
    /\ \A c \in Condition : <<c, {1}>> \in Position
  <1>1. Slot = {1, 2}
    BY EscrowAssumption
  <1>2. IndexSet = {{1}, {2}}
    <2>1. ASSUME NEW I \in IndexSet
          PROVE  I = {1} \/ I = {2}
      <3>1. I \subseteq {1, 2} /\ I # {} /\ I # {1, 2}
        BY <1>1 DEF IndexSet
      <3> QED
        BY <3>1
    <2>2. {1} \in IndexSet /\ {2} \in IndexSet
      <3>1. 1 \notin {2} /\ 2 \notin {1}
        OBVIOUS
      <3> QED
        BY <1>1, <3>1 DEF IndexSet
    <2> QED
      BY <2>1, <2>2
  <1> QED
    BY <1>1, <1>2 DEF Position

LEMMA SumOne ==
    ASSUME NEW f, NEW x, f[x] \in Nat
    PROVE  SumFunctionOnSet(f, {x}) = f[x]
  <1>1. IsFiniteSet({x}) /\ NatOn(f, {x}) /\ x \in {x}
    BY FS_Singleton DEF NatOn
  <1>2. SumFunctionOnSet(f, {x}) = f[x] + SumFunctionOnSet(f, {x} \ {x})
    BY <1>1, SumRemove
  <1>3. {x} \ {x} = {}
    OBVIOUS
  <1> QED
    BY <1>2, <1>3, SumEmpty

LEMMA ApprovalSums ==
    /\ Approval \in [Slot -> Wad] /\ Approval \in [Slot -> Nat]
    /\ SumFunctionOnSet(Approval, Slot) = 1
    /\ SumFunctionOnSet(Approval, {1}) = 1
  <1>1. Approval \in [Slot -> Wad] /\ Approval \in [Slot -> Nat]
    BY DaiAssumption DEF Approval, Wad
  <1>2. Approval[1] = 1 /\ Approval[2] = 0
    BY TwoSlots DEF Approval
  <1>3. IsFiniteSet(Slot) /\ NatOn(Approval, Slot)
    BY <1>1, IndexSetsFinite DEF NatOn
  <1>5. SumFunctionOnSet(Approval, {1}) = 1
    BY <1>2, SumOne
  <1>6. SumFunctionOnSet(Approval, {1}) = SumFunctionOnSet(Approval, Slot)
    <2>1. {1} \in SUBSET Slot /\ \A x \in Slot \ {1} : Approval[x] = 0
      BY <1>2, TwoSlots
    <2> QED
      BY <1>3, <2>1, SumSupport
  <1> QED
    BY <1>1, <1>5, <1>6

LEMMA BudgetNat ==
    /\ \A c \in Condition : Budget[c] \in Nat
    /\ IsFiniteSet(Reported) /\ Reported \subseteq Condition
    /\ NatOn(Budget, Reported)
  <1>1. \A c \in Condition : Budget[c] \in Nat
    BY EscrowAssumption
  <1>2. Reported \subseteq Condition
    BY DEF Reported
  <1>3. IsFiniteSet(Reported)
    BY <1>2, CallersAssumption, FS_Subset
  <1> QED
    BY <1>1, <1>2, <1>3 DEF NatOn

LEMMA ClaimNat ==
    ASSUME positions \in PositionTable
    PROVE  \A c \in Condition : /\ Held(c) \in Nat /\ Awaited(c) \in Nat /\ Claim(c) \in Nat
                                /\ positions[Holder][<<c, {1}>>] \in Nat
                                /\ positions[Bidder][<<c, {1}>>] \in Nat
  <1>1. ASSUME NEW c \in Condition
        PROVE  /\ positions[Holder][<<c, {1}>>] \in Nat
               /\ positions[Bidder][<<c, {1}>>] \in Nat
    BY TableNat, TwoSlots, Parties
  <1>2. \A c \in Condition : Awaited(c) \in Nat
    BY BudgetNat DEF Awaited
  <1>3. ASSUME NEW c \in Condition
        PROVE  Held(c) \in Nat
    BY <1>1 DEF Held
  <1>4. ASSUME NEW c \in Condition
        PROVE  Claim(c) \in Nat
    <2>1. Held(c) \in Nat /\ Awaited(c) \in Nat
      BY <1>2, <1>3
    <2> QED
      BY <2>1 DEF Claim
  <1> QED
    BY <1>1, <1>2, <1>3, <1>4

\* What the claims prove about payments.
LEMMA ClaimsCoverPayments ==
    ASSUME EscrowInv
    PROVE  EscrowConsistent
  <1>1. positions \in PositionTable /\ \A x \in Address : balanceOf[x] \in Nat
    BY TypesOfTokens DEF EscrowInv, TokenInv, TokensConsistent
  <1> DEFINE f == [c \in Condition |-> Claim(c)]
  <1>2. NatOn(f, Reported)
    BY <1>1, ClaimNat, BudgetNat DEF NatOn
  <1>3. PaidAndClaimed <=>
          balanceOf[Bidder] + SumFunctionOnSet(f, Reported) <= SumFunctionOnSet(Budget, Reported)
    BY DEF PaidAndClaimed
  <1> HIDE DEF f
  <1>4. SumFunctionOnSet(f, Reported) \in Nat /\ SumFunctionOnSet(Budget, Reported) \in Nat
    BY <1>2, BudgetNat, SumNat
  <1>5. balanceOf[Bidder] \in Nat
    BY <1>1, Parties
  <1>6. balanceOf[Bidder] <= SumFunctionOnSet(Budget, Reported)
    BY <1>3, <1>4, <1>5 DEF EscrowInv, ClaimInv
  <1>7. PaidOnlyReportedMilestones
    BY <1>6 DEF PaidOnlyReportedMilestones, Reported
  <1> QED
    BY <1>7 DEF EscrowInv, MoneyInv, EscrowConsistent

-----------------------------------------------------------------------------
(* What a step must do to the claims and to the money.                      *)

LEMMA EscrowTypes ==
    ASSUME EscrowInv
    PROVE  /\ ConditionalTokensTypeOK /\ DaiTypeOK /\ positions \in PositionTable
           /\ balanceOf \in [Address -> Wad] /\ \A x \in Address : balanceOf[x] \in Nat
           /\ allowance \in [Address -> [Address -> Wad]]
           /\ \A x, y \in Address : allowance[x][y] \in Nat
           /\ totalSupply \in Nat /\ totalValue \in Nat
           /\ \A f \in Funder : form[f] \in Wad /\ form[f] \in Nat
           /\ \A c \in Condition : payoutDenominator[c] \in Nat
           /\ MaxUint \in Nat /\ MaxSupply \in Nat
  <1>1. EscrowTypeOK /\ ConditionalTokensTypeOK
    BY DEF EscrowInv, EscrowTypeOK
  <1>2. DaiTypeOK /\ positions \in PositionTable
    BY <1>1, TypesOfTokens
  <1>3. MaxUint \in Nat /\ MaxSupply \in Nat /\ Wad \subseteq Nat
    BY DaiAssumption, EscrowAssumption DEF Wad
  <1>4. /\ balanceOf \in [Address -> Wad] /\ allowance \in [Address -> [Address -> Wad]]
        /\ totalSupply \in Wad
    BY <1>2 DEF DaiTypeOK
  <1>5. totalValue \in Wad /\ form \in [Funder -> Wad]
    BY <1>1 DEF EscrowTypeOK
  <1>6. \A c \in Condition : payoutDenominator[c] \in Nat
    BY <1>1, TypesOfTokens
  <1>7. \A x, y \in Address : allowance[x][y] \in Nat
    BY <1>3, <1>4
  <1>8. \A x \in Address : balanceOf[x] \in Nat
    BY <1>3, <1>4
  <1> QED
    BY <1>1, <1>2, <1>3, <1>4, <1>5, <1>6, <1>7, <1>8

LEMMA ClaimNatNext ==
    ASSUME positions' \in PositionTable
    PROVE  \A c \in Condition : Held(c)' \in Nat /\ Awaited(c)' \in Nat /\ Claim(c)' \in Nat
  <1>1. ASSUME NEW c \in Condition
        PROVE  Held(c)' \in Nat
    <2>1. /\ positions'[Holder][<<c, {1}>>] \in Nat
          /\ positions'[Bidder][<<c, {1}>>] \in Nat
      BY TableNat, TwoSlots, Parties
    <2> QED
      BY <2>1 DEF Held
  <1>2. \A c \in Condition : Awaited(c)' \in Nat
    BY BudgetNat DEF Awaited
  <1>3. ASSUME NEW c \in Condition
        PROVE  Claim(c)' \in Nat
    <2>1. Held(c)' \in Nat /\ Awaited(c)' \in Nat
      BY <1>1, <1>2
    <2> QED
      BY <2>1 DEF Claim
  <1> QED
    BY <1>1, <1>2, <1>3

\* The bidder is paid nothing, no report is made, no claim to a reported milestone
\* grows and none exceeds its budget.
LEMMA ClaimsNotRaised ==
    ASSUME EscrowInv, positions' \in PositionTable,
           payoutDenominator' = payoutDenominator,
           balanceOf'[Bidder] = balanceOf[Bidder],
           \A c \in Reported : Claim(c)' <= Claim(c),
           \A c \in Condition \ Reported : Claim(c)' <= Budget[c]
    PROVE  ClaimsBounded' /\ PaidAndClaimed'
  <1>1. Reported' = Reported
    BY DEF Reported
  <1>2. \A c \in Condition : Claim(c) \in Nat /\ Claim(c)' \in Nat /\ Budget[c] \in Nat
    BY EscrowTypes, ClaimNat, ClaimNatNext, BudgetNat
  <1>3. ClaimsBounded'
    BY <1>1 DEF ClaimsBounded
  <1> DEFINE f == [c \in Condition |-> Claim(c)]
             g == [c \in Condition |-> Claim(c)']
  <1>4. NatOn(f, Reported) /\ NatOn(g, Reported) /\ \A c \in Reported : g[c] <= f[c]
    BY <1>2, BudgetNat DEF NatOn
  <1>5. /\ PaidAndClaimed <=> balanceOf[Bidder] + SumFunctionOnSet(f, Reported)
                                <= SumFunctionOnSet(Budget, Reported)
        /\ PaidAndClaimed' <=> balanceOf'[Bidder] + SumFunctionOnSet(g, Reported)
                                 <= SumFunctionOnSet(Budget, Reported)
    BY <1>1 DEF PaidAndClaimed
  <1> HIDE DEF f, g
  <1>6. /\ SumFunctionOnSet(g, Reported) <= SumFunctionOnSet(f, Reported)
        /\ SumFunctionOnSet(g, Reported) \in Nat /\ SumFunctionOnSet(f, Reported) \in Nat
        /\ SumFunctionOnSet(Budget, Reported) \in Nat
    BY <1>4, BudgetNat, SumMonotone, SumNat
  <1>7. balanceOf[Bidder] \in Nat
    BY EscrowTypes, Parties
  <1> QED
    BY <1>3, <1>5, <1>6, <1>7 DEF EscrowInv, ClaimInv

LEMMA ClaimsNotGrown ==
    ASSUME EscrowInv, positions' \in PositionTable,
           payoutDenominator' = payoutDenominator,
           balanceOf'[Bidder] = balanceOf[Bidder],
           \A c \in Condition : Claim(c)' <= Claim(c)
    PROVE  ClaimsBounded' /\ PaidAndClaimed'
  <1>1. ASSUME NEW c \in Condition \ Reported
        PROVE  Claim(c)' <= Budget[c]
    <2>1. Claim(c) <= Budget[c]
      BY DEF EscrowInv, ClaimInv, ClaimsBounded
    <2>2. Claim(c)' \in Nat /\ Claim(c) \in Nat /\ Budget[c] \in Nat
      BY EscrowTypes, ClaimNat, ClaimNatNext, BudgetNat
    <2> QED
      BY <2>1, <2>2
  <1>2. \A c \in Reported : Claim(c)' <= Claim(c)
    BY BudgetNat
  <1> QED
    BY <1>1, <1>2, ClaimsNotRaised

\* Steps that leave the conditional tokens alone, and send no session to split.
LEMMA ClaimsUntouched ==
    ASSUME EscrowInv, UNCHANGED ctVars, balanceOf'[Bidder] = balanceOf[Bidder],
           \A s \in AuditorSession, c \in Condition : AtSplit(s, c)' => AtSplit(s, c)
    PROVE  ClaimInv'
  <1>1. positions' = positions /\ payoutNumerators' = payoutNumerators
        /\ payoutDenominator' = payoutDenominator
    BY DEF ctVars
  <1>2. positions' \in PositionTable
    BY <1>1, EscrowTypes
  <1>3. ASSUME NEW c \in Condition
        PROVE  Claim(c)' <= Claim(c)
    <2>1. Held(c)' = Held(c)
      BY <1>1 DEF Held
    <2>2. Awaited(c)' <= Awaited(c)
      BY BudgetNat DEF Awaited
    <2>3. Held(c) \in Nat /\ Awaited(c) \in Nat /\ Awaited(c)' \in Nat
      BY <1>2, EscrowTypes, ClaimNat, ClaimNatNext
    <2> QED
      BY <2>1, <2>2, <2>3 DEF Claim
  <1>4. ClaimsBounded' /\ PaidAndClaimed'
    BY <1>1, <1>2, <1>3, ClaimsNotGrown
  <1>5. OnlyProjectHolds' /\ ReportedApproved'
    BY <1>1 DEF EscrowInv, ClaimInv, OnlyProjectHolds, ReportedApproved, Reported
  <1>6. SplitsPrepared' /\ OneSplitEach'
    BY <1>1 DEF EscrowInv, ClaimInv, SplitsPrepared, OneSplitEach, Prepared
  <1> QED
    BY <1>4, <1>5, <1>6 DEF ClaimInv

-----------------------------------------------------------------------------
(* A state is put together from its parts.                                  *)

AccountTypes == /\ holderContract \in Address
                /\ fundedTokens \in Seq(FundingToken)
                /\ totalValue \in Wad

PageStep == {"idle", "approve", "buyOne", "recieve", "success", "error"}
SettingStep == {"idle", "prepare", "split", "transfer", "success", "error"}

FunderTypes == /\ page \in [Funder -> PageStep]
               /\ form \in [Funder -> Wad]
               /\ atSubmit \in [Funder -> [tokens : Nat, open : BOOLEAN]]

AuditorTypes == /\ setting \in [AuditorSession -> SettingStep]
                /\ milestone \in [AuditorSession -> Condition]

LEMMA PartsOfInv ==
    ASSUME EscrowInv
    PROVE  TokenInv /\ AccountTypes /\ FunderTypes /\ AuditorTypes /\ MoneyInv /\ ClaimInv
  BY DEF EscrowInv, EscrowTypeOK, AccountTypes, FunderTypes, AuditorTypes, PageStep, SettingStep

LEMMA InvOfParts ==
    ASSUME TokenInv', AccountTypes', FunderTypes', AuditorTypes', MoneyInv', ClaimInv'
    PROVE  EscrowInv'
  <1>1. ConditionalTokensTypeOK'
    BY DEF TokenInv, TokensConsistent
  <1>2. EscrowTypeOK'
    BY <1>1 DEF EscrowTypeOK, AccountTypes, FunderTypes, AuditorTypes, PageStep, SettingStep
  <1> QED
    BY <1>2 DEF EscrowInv

\* Steps that move no money between the funders and the project.
LEMMA MoneyUnmoved ==
    ASSUME EscrowInv, \A x \in {Token, Holder, CT, Bidder} : balanceOf'[x] = balanceOf[x],
           allowance'[Holder][CT] = allowance[Holder][CT],
           totalValue' = totalValue, fundedTokens' = fundedTokens, totalSupply' <= MaxSupply
    PROVE  MoneyInv'
  BY DEF EscrowInv, MoneyInv, EscrowAccountsAgree, FundingConserved

LEMMA FundersRest ==
    ASSUME EscrowInv, UNCHANGED funderVars
    PROVE  FunderTypes'
  BY PartsOfInv DEF FunderTypes, funderVars

LEMMA AuditorsRest ==
    ASSUME EscrowInv, UNCHANGED auditorVars
    PROVE  /\ AuditorTypes'
           /\ \A s \in AuditorSession, c \in Condition : AtSplit(s, c)' = AtSplit(s, c)
  BY PartsOfInv DEF AuditorTypes, AtSplit, auditorVars

LEMMA AccountsRest ==
    ASSUME EscrowInv, UNCHANGED contractVars
    PROVE  AccountTypes' /\ fundedTokens' = fundedTokens /\ totalValue' = totalValue
  BY PartsOfInv DEF AccountTypes, contractVars

\* Nothing of Dai and the conditional tokens moves, and nobody gets to split.
LEMMA PagesOnly ==
    ASSUME EscrowInv, UNCHANGED <<daiVars, ctVars>>, fundedTokens' = fundedTokens,
           totalValue' = totalValue, AccountTypes', FunderTypes', AuditorTypes',
           \A s \in AuditorSession, c \in Condition : AtSplit(s, c)' => AtSplit(s, c)
    PROVE  EscrowInv'
  <1>1. /\ balanceOf' = balanceOf /\ allowance' = allowance /\ totalSupply' = totalSupply
        /\ UNCHANGED ctVars
    BY DEF daiVars
  <1>2. TokenInv'
    BY TokenStutter, PartsOfInv
  <1>3. MoneyInv'
    BY <1>1, MoneyUnmoved DEF EscrowInv, MoneyInv
  <1>4. ClaimInv'
    BY <1>1, ClaimsUntouched
  <1> QED
    BY <1>2, <1>3, <1>4, InvOfParts

LEMMA FunderStepKeeps ==
    ASSUME EscrowInv, NEW f \in Funder, NEW from, NEW to \in PageStep, FunderStep(f, from, to)
    PROVE  /\ FunderTypes' /\ AuditorTypes'
           /\ \A s \in AuditorSession, c \in Condition : AtSplit(s, c)' => AtSplit(s, c)
  <1>1. page' = [page EXCEPT ![f] = to] /\ form' = form /\ atSubmit' = atSubmit
        /\ UNCHANGED auditorVars
    BY DEF FunderStep
  <1>2. FunderTypes'
    BY <1>1, PartsOfInv DEF FunderTypes
  <1> QED
    BY <1>1, <1>2, AuditorsRest

LEMMA AuditorStepKeeps ==
    ASSUME EscrowInv, NEW s \in AuditorSession, NEW from, NEW to \in SettingStep,
           AuditorStep(s, from, to)
    PROVE  /\ FunderTypes' /\ AuditorTypes'
           /\ \A t \in AuditorSession, c \in Condition :
                AtSplit(t, c)' <=> IF t = s THEN to = "split" /\ milestone[s] = c
                                   ELSE AtSplit(t, c)
           /\ setting[s] = from /\ milestone[s] \in Condition /\ milestone' = milestone
  <1>1. /\ setting[s] = from /\ setting' = [setting EXCEPT ![s] = to]
        /\ milestone' = milestone /\ UNCHANGED funderVars
    BY DEF AuditorStep
  <1>2. AuditorTypes' /\ milestone[s] \in Condition
    BY <1>1, PartsOfInv DEF AuditorTypes
  <1>3. setting \in [AuditorSession -> SettingStep]
    BY PartsOfInv DEF AuditorTypes
  <1>4. ASSUME NEW t \in AuditorSession, NEW c \in Condition
        PROVE  AtSplit(t, c)' <=> IF t = s THEN to = "split" /\ milestone[s] = c
                                  ELSE AtSplit(t, c)
    BY <1>1, <1>3 DEF AtSplit
  <1> QED
    BY <1>1, <1>2, <1>4, FundersRest

-----------------------------------------------------------------------------
(* The funders' pages.                                                      *)

LEMMA StartFundingKeeps ==
    ASSUME EscrowInv, StartFunding
    PROVE  EscrowInv'
  <1>1. /\ holderContract' = Holder /\ UNCHANGED <<daiVars, ctVars>>
        /\ fundedTokens' = fundedTokens /\ totalValue' = totalValue
        /\ UNCHANGED funderVars /\ UNCHANGED auditorVars
    BY DEF StartFunding, SetHolder
  <1>2. AccountTypes'
    BY <1>1, PartsOfInv, Parties DEF AccountTypes
  <1> QED
    BY <1>1, <1>2, FundersRest, AuditorsRest, PagesOnly

LEMMA FunderSubmitKeeps ==
    ASSUME EscrowInv, NEW f \in Funder, NEW w \in Amount, FunderSubmit(f, w)
    PROVE  EscrowInv'
  <1>1. /\ page' = [page EXCEPT ![f] = "approve"] /\ form' = [form EXCEPT ![f] = w]
        /\ atSubmit' = [atSubmit EXCEPT ![f] =
             [tokens |-> TokensOf(f), open |-> holderContract # Zero]]
        /\ UNCHANGED <<daiVars, ctVars>> /\ UNCHANGED contractVars /\ UNCHANGED auditorVars
    BY DEF FunderSubmit
  <1>2. TokensOf(f) \in Nat
    <2> DEFINE mine == {i \in DOMAIN fundedTokens : fundedTokens[i].projectFunder = f}
    <2>1. Len(fundedTokens) \in Nat /\ DOMAIN fundedTokens = 1..Len(fundedTokens)
      BY PartsOfInv DEF AccountTypes
    <2>2. IsFiniteSet(1..Len(fundedTokens))
      BY <2>1, FS_Interval
    <2>3. IsFiniteSet(mine)
      BY <2>1, <2>2, FS_Subset
    <2> QED
      BY <2>3, FS_CardinalityType DEF TokensOf
  <1>3. w \in Wad
    BY CallersAssumption
  <1>4. FunderTypes'
    <2>1. [tokens |-> TokensOf(f), open |-> holderContract # Zero]
            \in [tokens : Nat, open : BOOLEAN]
      BY <1>2
    <2>2. page' \in [Funder -> PageStep]
      BY <1>1, PartsOfInv DEF FunderTypes, PageStep
    <2>3. form' \in [Funder -> Wad]
      BY <1>1, <1>3, PartsOfInv DEF FunderTypes
    <2>4. atSubmit' \in [Funder -> [tokens : Nat, open : BOOLEAN]]
      BY <1>1, <2>1, PartsOfInv DEF FunderTypes
    <2> QED
      BY <2>2, <2>3, <2>4 DEF FunderTypes
  <1>5. AuditorTypes' /\ \A s \in AuditorSession, c \in Condition : AtSplit(s, c)' => AtSplit(s, c)
    BY <1>1, AuditorsRest
  <1>6. AccountTypes' /\ fundedTokens' = fundedTokens /\ totalValue' = totalValue
    BY <1>1, AccountsRest
  <1> QED
    BY <1>1, <1>4, <1>5, <1>6, PagesOnly

LEMMA FunderErrorKeeps ==
    ASSUME EscrowInv, NEW f \in Funder, FunderError(f)
    PROVE  EscrowInv'
  <1>1. /\ FunderStep(f, page[f], "error") /\ UNCHANGED <<daiVars, ctVars>>
        /\ UNCHANGED contractVars
    BY DEF FunderError
  <1>2. "error" \in PageStep
    BY DEF PageStep
  <1>3. /\ FunderTypes' /\ AuditorTypes'
        /\ \A s \in AuditorSession, c \in Condition : AtSplit(s, c)' => AtSplit(s, c)
    BY <1>1, <1>2, FunderStepKeeps
  <1>4. AccountTypes' /\ fundedTokens' = fundedTokens /\ totalValue' = totalValue
    BY <1>1, AccountsRest
  <1> QED
    BY <1>1, <1>3, <1>4, PagesOnly

\* Dai calls of the funders: they have no part of the project's money.
LEMMA FundersDaiKeeps ==
    ASSUME EscrowInv, UNCHANGED ctVars, UNCHANGED contractVars, FunderTypes', AuditorTypes',
           \A s \in AuditorSession, c \in Condition : AtSplit(s, c)' => AtSplit(s, c),
           DaiTypeOK', DaiConserved', NEW f \in Funder,
           \A x \in Address \ {f} : balanceOf'[x] = balanceOf[x] /\ allowance'[x] = allowance[x],
           totalSupply' <= MaxSupply
    PROVE  EscrowInv'
  <1>1. AccountTypes' /\ fundedTokens' = fundedTokens /\ totalValue' = totalValue
    BY AccountsRest
  <1>2. \A x \in {Token, Holder, CT, Bidder} : x \in Address \ {f}
    BY Parties
  <1>3. MoneyInv'
    BY <1>1, <1>2, MoneyUnmoved
  <1>4. ClaimInv'
    BY <1>2, ClaimsUntouched
  <1>5. TokenInv'
    <2>1. balanceOf[CT] <= balanceOf'[CT]
      BY <1>2, EscrowTypes, Parties
    <2> QED
      BY <2>1, DaiCallKeeps, PartsOfInv
  <1> QED
    BY <1>1, <1>3, <1>4, <1>5, InvOfParts

LEMMA FaucetKeeps ==
    ASSUME EscrowInv, NEW f \in Funder, NEW w \in Amount, Faucet(f, w)
    PROVE  EscrowInv'
  <1>1. /\ Mint(f, w) /\ UNCHANGED ctVars /\ UNCHANGED contractVars
        /\ UNCHANGED funderVars /\ UNCHANGED auditorVars /\ totalSupply + w <= MaxSupply
    BY DEF Faucet
  <1>2. w \in Nat /\ f \in Address
    BY CallersAssumption, DaiAssumption, Parties DEF Wad
  <1>3. DaiTypeOK /\ DaiConserved
    BY DEF EscrowInv, TokenInv, TokensConsistent, ConditionalTokensTypeOK
  <1>4. /\ DaiTypeOK' /\ DaiConserved'
        /\ \A x \in Address \ {f} : balanceOf'[x] = balanceOf[x]
    BY <1>1, <1>2, <1>3, MintKeeps
  <1>5. allowance' = allowance /\ totalSupply' <= MaxSupply
    BY <1>1 DEF Mint
  <1>6. FunderTypes' /\ AuditorTypes'
        /\ \A s \in AuditorSession, c \in Condition : AtSplit(s, c)' => AtSplit(s, c)
    BY <1>1, FundersRest, AuditorsRest
  <1> QED
    BY <1>1, <1>4, <1>5, <1>6, FundersDaiKeeps

LEMMA FunderApproveKeeps ==
    ASSUME EscrowInv, NEW f \in Funder, FunderApprove(f)
    PROVE  EscrowInv'
  <1>1. /\ FunderStep(f, "approve", "buyOne") /\ Approve(f, Token, form[f])
        /\ UNCHANGED ctVars /\ UNCHANGED contractVars
    BY DEF FunderApprove
  <1>2. "buyOne" \in PageStep
    BY DEF PageStep
  <1>3. /\ FunderTypes' /\ AuditorTypes'
        /\ \A s \in AuditorSession, c \in Condition : AtSplit(s, c)' => AtSplit(s, c)
    BY <1>1, <1>2, FunderStepKeeps
  <1>4. form[f] \in Wad /\ f \in Address /\ Token \in Address /\ DaiTypeOK
    BY EscrowTypes, Parties
  <1>5. DaiConserved
    BY DEF EscrowInv, TokenInv, TokensConsistent
  <1>6. DaiTypeOK' /\ DaiConserved' /\ balanceOf' = balanceOf
    BY <1>1, <1>4, <1>5, ApproveKeeps
  <1>7. /\ \A x \in Address \ {f} : allowance'[x] = allowance[x]
        /\ totalSupply' = totalSupply
    BY <1>1, <1>4 DEF Approve, DaiTypeOK
  <1>8. totalSupply' <= MaxSupply
    BY <1>7 DEF EscrowInv, MoneyInv
  <1> QED
    BY <1>1, <1>3, <1>6, <1>7, <1>8, FundersDaiKeeps

\* What the funding tokens were sold for.
Sold(sold) ==
  SumFunctionOnSet([i \in DOMAIN sold |-> sold[i].fundingValue], DOMAIN sold)

LEMMA OneMoreSold ==
    ASSUME NEW sold \in Seq(FundingToken), NEW t \in FundingToken
    PROVE  /\ Sold(Append(sold, t)) = Sold(sold) + t.fundingValue
           /\ Sold(sold) \in Nat /\ t.fundingValue \in Nat
  <1> DEFINE n == Len(sold)
             S == 1..n
             T == 1..(n + 1)
             f == [i \in S |-> sold[i].fundingValue]
             g == [i \in T |-> Append(sold, t)[i].fundingValue]
  <1>1. /\ n \in Nat /\ DOMAIN sold = S /\ DOMAIN Append(sold, t) = T
        /\ Append(sold, t) \in Seq(FundingToken)
        /\ \A i \in S : Append(sold, t)[i] = sold[i]
        /\ Append(sold, t)[n + 1] = t
    OBVIOUS
  <1>2. Sold(sold) = SumFunctionOnSet(f, S) /\ Sold(Append(sold, t)) = SumFunctionOnSet(g, T)
    BY <1>1 DEF Sold
  <1>3. \A u \in FundingToken : u.fundingValue \in Nat
    BY DaiAssumption DEF FundingToken, Wad
  <1>4. IsFiniteSet(S) /\ IsFiniteSet(T)
    BY <1>1, FS_Interval
  <1>5. NatOn(f, S)
    <2>1. \A i \in S : sold[i] \in FundingToken
      BY <1>1
    <2> QED
      BY <1>3, <2>1 DEF NatOn
  <1>6. n + 1 \in T /\ T \ {n + 1} = S
    BY <1>1
  <1>7. g[n + 1] = t.fundingValue /\ \A i \in S : g[i] = f[i]
    <2>1. \A i \in S : i \in T
      BY <1>6
    <2> QED
      BY <1>1, <1>6, <2>1
  <1>8. NatOn(g, T)
    <2>1. ASSUME NEW i \in T
          PROVE  g[i] \in Nat
      <3>1. CASE i = n + 1
        BY <1>3, <1>7, <3>1
      <3>2. CASE i \in S
        BY <1>5, <1>7, <3>2 DEF NatOn
      <3> QED
        BY <1>6, <3>1, <3>2
    <2> QED
      BY <2>1 DEF NatOn
  <1> HIDE DEF f, g, S, T, n
  <1>9. SumFunctionOnSet(g, T) = g[n + 1] + SumFunctionOnSet(g, S)
    BY <1>4, <1>6, <1>8, SumRemove
  <1>10. SumFunctionOnSet(g, S) = SumFunctionOnSet(f, S) /\ SumFunctionOnSet(f, S) \in Nat
    BY <1>4, <1>5, <1>7, SumSame, SumNat
  <1>11. t.fundingValue \in Nat
    BY <1>3
  <1> QED
    BY <1>2, <1>7, <1>9, <1>10, <1>11

LEMMA FunderBuyOneKeeps ==
    ASSUME EscrowInv, NEW f \in Funder, FunderBuyOne(f)
    PROVE  EscrowInv'
  <1> DEFINE v == form[f]
             t == [projectFunder |-> f, fundingValue |-> v]
  <1>1. /\ FunderStep(f, "buyOne", "recieve") /\ MaySpend(f, Token, v)
        /\ Moved(f, Token, v)[Token] <= MaxUint /\ balanceOf' = Moved(f, Token, v)
        /\ allowance' = [Spent(f, Token, v) EXCEPT ![Token][holderContract] = v]
        /\ fundedTokens' = Append(fundedTokens, t)
        /\ UNCHANGED <<totalSupply, ctVars, holderContract, totalValue>>
    BY DEF FunderBuyOne, BuyOne, BuyOneEnabled
  <1>2. "recieve" \in PageStep
    BY DEF PageStep
  <1>3. /\ FunderTypes' /\ AuditorTypes'
        /\ \A s \in AuditorSession, c \in Condition : AtSplit(s, c)' => AtSplit(s, c)
    BY <1>1, <1>2, FunderStepKeeps
  <1>4. /\ v \in Wad /\ v \in Nat /\ f \in Address /\ Token \in Address /\ Holder \in Address
        /\ CT \in Address /\ Bidder \in Address /\ DaiTypeOK /\ DaiConserved
        /\ holderContract \in Address
        /\ f # Token /\ f # Holder /\ f # CT /\ f # Bidder
        /\ Token # Holder /\ Token # CT /\ Token # Bidder
    BY EscrowTypes, Parties, PartsOfInv DEF TokenInv, TokensConsistent, AccountTypes
  <1>5. /\ balanceOf' \in [Address -> Wad]
        /\ \A x \in Address : balanceOf'[x] = BalanceAfter(f, Token, v, x)
        /\ SumFunctionOnSet(balanceOf', Address) = SumFunctionOnSet(balanceOf, Address)
    <2>1. balanceOf[f] >= v
      BY <1>1 DEF MaySpend
    <2> HIDE DEF v
    <2> QED
      BY <1>1, <1>4, <2>1, MovedFacts
  <1>6. Spent(f, Token, v) \in [Address -> [Address -> Wad]]
    <2> HIDE DEF v
    <2> QED
      BY <1>1, <1>4, SpentType
  <1>7. Spent(f, Token, v)[Holder] = allowance[Holder]
    BY <1>4 DEF Spent, DaiTypeOK
  <1>8. allowance' \in [Address -> [Address -> Wad]] /\ allowance'[Holder] = allowance[Holder]
    <2>1. PICK sp \in [Address -> [Address -> Wad]] : sp = Spent(f, Token, v)
      BY <1>6
    <2> HIDE DEF v
    <2> QED
      BY <1>1, <1>4, <1>7, <2>1
  <1>9. DaiTypeOK' /\ DaiConserved'
    BY <1>1, <1>4, <1>5, <1>8 DEF DaiTypeOK, DaiConserved
  <1>10. /\ balanceOf'[Token] = balanceOf[Token] + v /\ balanceOf'[Holder] = balanceOf[Holder]
         /\ balanceOf'[CT] = balanceOf[CT] /\ balanceOf'[Bidder] = balanceOf[Bidder]
    BY <1>4, <1>5 DEF BalanceAfter
  <1>11. TokenInv'
    <2>1. balanceOf[CT] <= balanceOf'[CT]
      BY <1>4, <1>10, EscrowTypes
    <2> QED
      BY <1>1, <1>9, <2>1, DaiCallKeeps, PartsOfInv
  <1>12. ClaimInv'
    BY <1>1, <1>3, <1>10, ClaimsUntouched
  <1>13. fundedTokens \in Seq(FundingToken) /\ t \in FundingToken
    BY <1>4, PartsOfInv DEF AccountTypes, FundingToken
  <1>14. AccountTypes'
    BY <1>1, <1>13, PartsOfInv DEF AccountTypes
  <1>15. MoneyInv'
    <2>1. Sold(fundedTokens') = Sold(fundedTokens) + v /\ Sold(fundedTokens) \in Nat
      <3>1. t.fundingValue = v
        OBVIOUS
      <3> HIDE DEF t
      <3> QED
        BY <1>1, <1>13, <3>1, OneMoreSold
    <2>2. Sold(fundedTokens)
            = balanceOf[Token] + balanceOf[Holder] + balanceOf[CT] + balanceOf[Bidder]
      BY DEF Sold, EscrowInv, MoneyInv, FundingConserved
    <2>3. Sold(fundedTokens')
            = balanceOf'[Token] + balanceOf'[Holder] + balanceOf'[CT] + balanceOf'[Bidder]
      BY <1>4, <1>10, <2>1, <2>2, EscrowTypes
    <2>4. FundingConserved'
      BY <2>3 DEF Sold, FundingConserved
    <2>5. EscrowAccountsAgree' /\ totalSupply' <= MaxSupply
      BY <1>1, <1>8, <1>10 DEF EscrowInv, MoneyInv, EscrowAccountsAgree
    <2> QED
      BY <2>4, <2>5 DEF MoneyInv
  <1> QED
    BY <1>3, <1>11, <1>12, <1>14, <1>15, InvOfParts

LEMMA FunderRecieveKeeps ==
    ASSUME EscrowInv, NEW f \in Funder, FunderRecieve(f)
    PROVE  EscrowInv'
  <1> DEFINE v == form[f]
  <1>1. /\ FunderStep(f, "recieve", "success") /\ MaySpend(Token, Holder, v)
        /\ totalValue + v <= MaxUint /\ balanceOf' = Moved(Token, Holder, v)
        /\ totalValue' = totalValue + v
        /\ allowance' = [Spent(Token, Holder, v) EXCEPT ![Holder][CT] = totalValue']
        /\ UNCHANGED <<totalSupply, ctVars, holderContract, fundedTokens>>
    BY DEF FunderRecieve, RecieveERC20, RecieveEnabled
  <1>2. "success" \in PageStep
    BY DEF PageStep
  <1>3. /\ FunderTypes' /\ AuditorTypes'
        /\ \A s \in AuditorSession, c \in Condition : AtSplit(s, c)' => AtSplit(s, c)
    BY <1>1, <1>2, FunderStepKeeps
  <1>4. /\ v \in Nat /\ Token \in Address /\ Holder \in Address
        /\ CT \in Address /\ Bidder \in Address /\ DaiTypeOK /\ DaiConserved
        /\ Token # Holder /\ Token # CT /\ Token # Bidder
        /\ Holder # CT /\ Holder # Bidder
    BY EscrowTypes, Parties, PartsOfInv DEF TokenInv, TokensConsistent
  <1>5. totalValue = balanceOf[Holder] /\ totalValue' \in Wad
    <2>1. totalValue \in Nat /\ MaxUint \in Nat
      BY EscrowTypes
    <2>2. totalValue = balanceOf[Holder]
      BY DEF EscrowInv, MoneyInv, EscrowAccountsAgree
    <2> QED
      BY <1>1, <1>4, <2>1, <2>2 DEF Wad
  <1>6. /\ balanceOf' \in [Address -> Wad]
        /\ \A x \in Address : balanceOf'[x] = BalanceAfter(Token, Holder, v, x)
        /\ SumFunctionOnSet(balanceOf', Address) = SumFunctionOnSet(balanceOf, Address)
    <2>1. balanceOf[Token] >= v
      BY <1>1 DEF MaySpend
    <2>2. Moved(Token, Holder, v)[Holder] = balanceOf[Holder] + v
      BY <1>4 DEF Moved, DaiTypeOK
    <2>3. Moved(Token, Holder, v)[Holder] <= MaxUint
      BY <1>1, <1>5, <2>2
    <2> HIDE DEF v
    <2> QED
      BY <1>1, <1>4, <2>1, <2>3, MovedFacts
  <1>7. Spent(Token, Holder, v) \in [Address -> [Address -> Wad]]
    <2> HIDE DEF v
    <2> QED
      BY <1>1, <1>4, SpentType
  <1>8. allowance' \in [Address -> [Address -> Wad]] /\ allowance'[Holder][CT] = totalValue'
    <2>1. PICK sp \in [Address -> [Address -> Wad]] : sp = Spent(Token, Holder, v)
      BY <1>7
    <2>2. PICK tv \in Wad : tv = totalValue'
      BY <1>5
    <2> HIDE DEF v
    <2> QED
      BY <1>1, <1>4, <2>1, <2>2
  <1>9. DaiTypeOK' /\ DaiConserved'
    BY <1>1, <1>4, <1>6, <1>8 DEF DaiTypeOK, DaiConserved
  <1>10. /\ balanceOf'[Token] = balanceOf[Token] - v /\ balanceOf'[Holder] = balanceOf[Holder] + v
         /\ balanceOf'[CT] = balanceOf[CT] /\ balanceOf'[Bidder] = balanceOf[Bidder]
    BY <1>4, <1>6 DEF BalanceAfter
  <1>11. TokenInv'
    <2>1. balanceOf[CT] <= balanceOf'[CT]
      BY <1>4, <1>10, EscrowTypes
    <2> QED
      BY <1>1, <1>9, <2>1, DaiCallKeeps, PartsOfInv
  <1>12. ClaimInv'
    BY <1>1, <1>3, <1>10, ClaimsUntouched
  <1>13. AccountTypes'
    BY <1>1, <1>5, PartsOfInv DEF AccountTypes
  <1>14. MoneyInv'
    <2>1. FundingConserved'
      <3>1. balanceOf[Token] + balanceOf[Holder] + balanceOf[CT] + balanceOf[Bidder]
              = balanceOf'[Token] + balanceOf'[Holder] + balanceOf'[CT] + balanceOf'[Bidder]
        BY <1>4, <1>10, EscrowTypes
      <3> QED
        BY <1>1, <3>1 DEF EscrowInv, MoneyInv, FundingConserved
    <2>2. EscrowAccountsAgree' /\ totalSupply' <= MaxSupply
      BY <1>1, <1>5, <1>8, <1>10 DEF EscrowInv, MoneyInv, EscrowAccountsAgree
    <2> QED
      BY <2>1, <2>2 DEF MoneyInv
  <1> QED
    BY <1>3, <1>11, <1>12, <1>13, <1>14, InvOfParts

-----------------------------------------------------------------------------
(* The auditor's page.                                                      *)

LEMMA SetConditionsKeeps ==
    ASSUME EscrowInv, NEW s \in AuditorSession, NEW c \in Condition, SetConditions(s, c)
    PROVE  EscrowInv'
  <1>1. /\ milestone' = [milestone EXCEPT ![s] = c]
        /\ setting' = [setting EXCEPT ![s] =
             IF Budget[c] > totalValue THEN "error" ELSE "prepare"]
        /\ UNCHANGED <<daiVars, ctVars>> /\ UNCHANGED contractVars /\ UNCHANGED funderVars
    BY DEF SetConditions
  <1>2. AuditorTypes
    BY PartsOfInv
  <1>3. AuditorTypes'
    BY <1>1, <1>2 DEF AuditorTypes, SettingStep
  <1>4. ASSUME NEW t \in AuditorSession, NEW e \in Condition, AtSplit(t, e)'
        PROVE  AtSplit(t, e)
    BY <1>1, <1>2, <1>4 DEF AuditorTypes, AtSplit
  <1> QED
    BY <1>1, <1>3, <1>4, FundersRest, AccountsRest, PagesOnly

LEMMA AuditorErrorKeeps ==
    ASSUME EscrowInv, NEW s \in AuditorSession, AuditorError(s)
    PROVE  EscrowInv'
  <1>1. /\ AuditorStep(s, setting[s], "error") /\ UNCHANGED <<daiVars, ctVars>>
        /\ UNCHANGED contractVars
    BY DEF AuditorError
  <1>2. "error" \in SettingStep /\ "error" # "split"
    BY DEF SettingStep
  <1>3. /\ FunderTypes' /\ AuditorTypes'
        /\ \A t \in AuditorSession, c \in Condition : AtSplit(t, c)' => AtSplit(t, c)
    BY <1>1, <1>2, AuditorStepKeeps
  <1>4. AccountTypes' /\ fundedTokens' = fundedTokens /\ totalValue' = totalValue
    BY <1>1, AccountsRest
  <1> QED
    BY <1>1, <1>3, <1>4, PagesOnly

LEMMA AuditorPrepareKeeps ==
    ASSUME EscrowInv, NEW s \in AuditorSession, AuditorPrepare(s)
    PROVE  EscrowInv'
  <1>0. "split" \in SettingStep
    BY DEF SettingStep
  <1>1. PICK m \in Condition :
          /\ AuditorStep(s, "prepare", "split") /\ m = milestone[s] /\ PrepareCondition(m)
          /\ UNCHANGED daiVars /\ UNCHANGED contractVars
    BY <1>0, AuditorStepKeeps DEF AuditorPrepare
  <1>3. /\ FunderTypes' /\ AuditorTypes' /\ setting[s] = "prepare"
        /\ \A t \in AuditorSession, c \in Condition :
             AtSplit(t, c)' <=> IF t = s THEN m = c ELSE AtSplit(t, c)
    BY <1>0, <1>1, AuditorStepKeeps
  <1>4. /\ ~Prepared(m) /\ positions' = positions /\ payoutDenominator' = payoutDenominator
        /\ payoutNumerators' = [payoutNumerators EXCEPT ![m] = [x \in Slot |-> 0]]
        /\ balanceOf' = balanceOf /\ allowance' = allowance /\ totalSupply' = totalSupply
    BY <1>1 DEF PrepareCondition, daiVars
  <1>5. TokenInv'
    BY <1>1, <1>3, PrepareKeeps, PartsOfInv
  <1>6. AccountTypes' /\ fundedTokens' = fundedTokens /\ totalValue' = totalValue
    BY <1>1, AccountsRest
  <1>7. MoneyInv'
    BY <1>4, <1>6, MoneyUnmoved DEF EscrowInv, MoneyInv
  <1>8. \A t \in AuditorSession : ~AtSplit(t, m)
    BY <1>3, <1>4 DEF EscrowInv, ClaimInv, SplitsPrepared
  <1>9. \A c \in Condition : ~AtSplit(s, c)
    BY <1>3 DEF AtSplit
  <1>10. m \notin Reported /\ Held(m) = 0
    <2>1. Phase(payoutNumerators[m], payoutDenominator[m]) /\ payoutNumerators[m] = Unprepared
      BY <1>3, <1>4 DEF EscrowInv, TokenInv, PhasesOK, Prepared
    <2>2. payoutDenominator[m] = 0
      BY <2>1, ConditionalTokensAssumption DEF Phase
    <2>3. positions[Holder][<<m, {1}>>] = 0 /\ positions[Bidder][<<m, {1}>>] = 0
      BY <1>3, <1>4, TwoSlots, Parties DEF EscrowInv, TokenInv, NoEarlyStake
    <2> QED
      BY <2>2, <2>3 DEF Reported, Held
  <1>11. positions \in PositionTable /\ positions' \in PositionTable
    BY <1>4, EscrowTypes
  <1>12. ASSUME NEW c \in Condition \ {m}
         PROVE  Claim(c)' = Claim(c)
    <2>1. Held(c)' = Held(c)
      BY <1>4 DEF Held
    <2>2. \A t \in AuditorSession : AtSplit(t, c)' <=> AtSplit(t, c)
      BY <1>3, <1>9
    <2>3. Awaited(c)' = Awaited(c)
      BY <2>2 DEF Awaited
    <2> QED
      BY <2>1, <2>3 DEF Claim
  <1>13. Claim(m)' <= Budget[m]
    <2>1. Held(m)' = 0
      BY <1>4, <1>10 DEF Held
    <2>2. Awaited(m)' <= Budget[m] /\ Awaited(m)' \in Nat
      BY <1>3, BudgetNat DEF Awaited
    <2> QED
      BY <1>3, <2>1, <2>2, BudgetNat DEF Claim
  <1>14. ClaimsBounded' /\ PaidAndClaimed'
    <2>1. ASSUME NEW c \in Reported
          PROVE  Claim(c)' <= Claim(c)
      <3>1. c \in Condition \ {m}
        BY <1>10, BudgetNat
      <3>2. Claim(c)' = Claim(c) /\ Claim(c) \in Nat
        <4>1. Claim(c)' = Claim(c)
          BY <1>12, <3>1
        <4>2. Claim(c) \in Nat
          BY <1>11, <3>1, ClaimNat
        <4> QED
          BY <4>1, <4>2
      <3> QED
        BY <3>2
    <2>2. ASSUME NEW c \in Condition \ Reported
          PROVE  Claim(c)' <= Budget[c]
      <3>1. Claim(c) <= Budget[c]
        BY DEF EscrowInv, ClaimInv, ClaimsBounded
      <3> QED
        BY <1>12, <1>13, <3>1
    <2> QED
      BY <1>4, <1>11, <2>1, <2>2, ClaimsNotRaised
  <1>15. OnlyProjectHolds'
    BY <1>4 DEF EscrowInv, ClaimInv, OnlyProjectHolds
  <1>16. payoutNumerators \in [Condition -> [Slot -> Wad] \cup {Unprepared}]
    BY EscrowTypes, TypesOfTokens
  <1>17. ReportedApproved'
    <2>1. ASSUME NEW c \in Reported
          PROVE  payoutNumerators'[c] = Approval /\ payoutDenominator'[c] = 1
      <3>1. c \in Condition /\ c # m
        BY <1>10, BudgetNat
      <3>2. payoutNumerators'[c] = payoutNumerators[c]
        BY <1>4, <1>16, <3>1
      <3> QED
        BY <1>4, <3>2 DEF EscrowInv, ClaimInv, ReportedApproved
    <2>2. Reported' = Reported
      BY <1>4 DEF Reported
    <2> QED
      BY <2>1, <2>2 DEF ReportedApproved
  <1>18. SplitsPrepared' /\ OneSplitEach'
    <2>1. [x \in Slot |-> 0] # Unprepared
      BY ConditionalTokensAssumption
    <2>2. \A c \in Condition : Prepared(c)' <=> c = m \/ Prepared(c)
      BY <1>3, <1>4, <1>16, <2>1 DEF Prepared
    <2>3. ASSUME NEW t \in AuditorSession, NEW c \in Condition, AtSplit(t, c)'
          PROVE  Prepared(c)'
      BY <1>3, <2>2, <2>3 DEF EscrowInv, ClaimInv, SplitsPrepared
    <2>4. ASSUME NEW t \in AuditorSession, NEW u \in AuditorSession, NEW c \in Condition,
                 AtSplit(t, c)', AtSplit(u, c)'
          PROVE  t = u
      <3>1. CASE c = m
        BY <1>3, <1>8, <2>4, <3>1
      <3>2. CASE c # m
        BY <1>3, <2>4, <3>2 DEF EscrowInv, ClaimInv, OneSplitEach
      <3> QED
        BY <3>1, <3>2
    <2> QED
      BY <2>3, <2>4 DEF SplitsPrepared, OneSplitEach
  <1>19. ClaimInv'
    BY <1>14, <1>15, <1>17, <1>18 DEF ClaimInv
  <1> QED
    BY <1>3, <1>5, <1>6, <1>7, <1>19, InvOfParts

\* No account, and no allowance of the escrow, reaches the amount that stands
\* for an unlimited allowance.
LEMMA EscrowMetered ==
    ASSUME EscrowInv
    PROVE  Metered(Holder, CT)
  <1>1. allowance[Holder][CT] = balanceOf[Holder] /\ balanceOf[Holder] \in Nat
    BY EscrowTypes, Parties DEF EscrowInv, MoneyInv, EscrowAccountsAgree
  <1>2. balanceOf[Holder] <= SumFunctionOnSet(balanceOf, Address)
    BY EscrowTypes, Parties, BalancesNat, CallersAssumption, SumMember
  <1>3. SumFunctionOnSet(balanceOf, Address) = totalSupply /\ totalSupply <= MaxSupply
    BY DEF EscrowInv, MoneyInv, TokenInv, TokensConsistent, DaiConserved
  <1>4. totalSupply \in Nat /\ MaxSupply \in Nat /\ MaxUint \in Nat /\ MaxSupply < MaxUint
    BY EscrowTypes, EscrowAssumption
  <1>5. allowance[Holder][CT] # MaxUint
    BY <1>1, <1>2, <1>3, <1>4
  <1> QED
    BY <1>5, Parties DEF Metered

\* callSplitPosition turns what a session was about to mint into approval tokens
\* of the escrow: the claim stays as it was.
LEMMA AuditorSplitKeeps ==
    ASSUME EscrowInv, NEW s \in AuditorSession, AuditorSplit(s)
    PROVE  EscrowInv'
  <1>0. "transfer" \in SettingStep /\ "transfer" # "split"
    BY DEF SettingStep
  <1>1. PICK m \in Condition : /\ AuditorStep(s, "split", "transfer") /\ m = milestone[s]
                               /\ CallSplitPosition(m, Budget[m])
    BY <1>0, AuditorStepKeeps DEF AuditorSplit
  <1>2. PICK w \in Nat : w = Budget[m]
    BY BudgetNat
  <1>3. /\ FunderTypes' /\ AuditorTypes' /\ setting[s] = "split"
        /\ \A t \in AuditorSession, c \in Condition :
             AtSplit(t, c)' <=> t # s /\ AtSplit(t, c)
    BY <1>0, <1>1, AuditorStepKeeps
  <1> DEFINE P == {{1}, {2}}
             minted == [I \in P |-> w]
  <1>4. /\ SplitPosition(Holder, m, P, w) /\ totalValue >= w /\ totalValue' = totalValue - w
        /\ holderContract' = holderContract /\ fundedTokens' = fundedTokens
    BY <1>1, <1>2 DEF CallSplitPosition
  <1>5. UNION P = Slot
    BY TwoSlots
  <1>6. /\ TransferFrom(CT, Holder, CT, w) /\ InRange(Adjusted(Holder, m, minted)[Holder])
        /\ positions' = Adjusted(Holder, m, minted)
        /\ payoutNumerators' = payoutNumerators /\ payoutDenominator' = payoutDenominator
    BY <1>4, <1>5 DEF SplitPosition
  <1>7. /\ Holder \in Address \ {CT} /\ Holder \in Address /\ CT \in Address
        /\ Token \in Address /\ Bidder \in Address
        /\ Token # Holder /\ Token # CT /\ Holder # CT /\ Bidder # Holder /\ Bidder # CT
    BY Parties
  <1>8. TokenInv'
    <2> HIDE DEF P
    <2> QED
      BY <1>4, <1>7, SplitKeeps, PartsOfInv
  <1>9. /\ positions' \in PositionTable /\ OnlyRow(positions, positions', Holder)
        /\ \A e \in Condition, I \in IndexSet :
             positions'[Holder][<<e, I>>] =
               IF e = m /\ I \in DOMAIN minted THEN positions[Holder][<<e, I>>] + minted[I]
               ELSE positions[Holder][<<e, I>>]
    <2> HIDE DEF minted
    <2> QED
      BY <1>6, <1>7, EscrowTypes, AdjustedFacts
  <1>10. \A x \in Address : balanceOf'[x] = BalanceAfter(Holder, CT, w, x)
    BY <1>6, <1>7, EscrowTypes, TransferFromKeeps
  <1>11. /\ balanceOf'[Holder] = balanceOf[Holder] - w /\ balanceOf'[CT] = balanceOf[CT] + w
         /\ balanceOf'[Token] = balanceOf[Token] /\ balanceOf'[Bidder] = balanceOf[Bidder]
    BY <1>7, <1>10 DEF BalanceAfter
  <1>12. AccountTypes'
    <2>1. totalValue \in Nat /\ MaxUint \in Nat /\ totalValue \in Wad
      BY EscrowTypes, PartsOfInv DEF AccountTypes
    <2>2. totalValue' \in Wad
      BY <1>4, <2>1 DEF Wad
    <2> QED
      BY <1>4, <2>2, PartsOfInv DEF AccountTypes
  <1>13. MoneyInv'
    <2>1. /\ allowance' = [allowance EXCEPT ![Holder][CT] = @ - w]
          /\ totalSupply' = totalSupply
      BY <1>6, EscrowMetered DEF TransferFrom, Spent
    <2>2. allowance'[Holder][CT] = allowance[Holder][CT] - w
      BY <1>7, <2>1, EscrowTypes
    <2>3. EscrowAccountsAgree' /\ totalSupply' <= MaxSupply
      BY <1>4, <1>11, <2>1, <2>2 DEF EscrowInv, MoneyInv, EscrowAccountsAgree
    <2>4. balanceOf[Token] + balanceOf[Holder] + balanceOf[CT] + balanceOf[Bidder]
            = balanceOf'[Token] + balanceOf'[Holder] + balanceOf'[CT] + balanceOf'[Bidder]
      BY <1>7, <1>11, EscrowTypes
    <2>5. FundingConserved'
      BY <1>4, <2>4 DEF EscrowInv, MoneyInv, FundingConserved
    <2> QED
      BY <2>3, <2>5 DEF MoneyInv
  <1>14. positions \in PositionTable
    BY EscrowTypes
  <1>15. positions'[Bidder] = positions[Bidder]
    BY <1>7, <1>9 DEF OnlyRow
  <1>16. ASSUME NEW c \in Condition
         PROVE  Claim(c)' <= Claim(c)
    <2>1. /\ positions[Holder][<<c, {1}>>] \in Nat /\ positions[Bidder][<<c, {1}>>] \in Nat
          /\ Held(c) \in Nat /\ Awaited(c) \in Nat
      BY <1>14, ClaimNat
    <2>2. CASE c = m
      <3>1. {1} \in DOMAIN minted /\ minted[{1}] = w
        OBVIOUS
      <3>2. positions'[Holder][<<c, {1}>>] = positions[Holder][<<c, {1}>>] + w
        BY <1>9, <2>2, <3>1, TwoSlots
      <3>3. Held(c)' = Held(c) + w
        BY <1>15, <2>1, <3>2 DEF Held
      <3>4. AtSplit(s, m)
        BY <1>1, <1>3 DEF AtSplit
      <3>5. Awaited(c) = w
        BY <1>2, <2>2, <3>4 DEF Awaited
      <3>6. \A t \in AuditorSession : ~AtSplit(t, c)'
        BY <1>3, <2>2, <3>4 DEF EscrowInv, ClaimInv, OneSplitEach
      <3>7. Awaited(c)' = 0
        BY <3>6 DEF Awaited
      <3> QED
        BY <2>1, <3>3, <3>5, <3>7 DEF Claim
    <2>3. CASE c # m
      <3>1. positions'[Holder][<<c, {1}>>] = positions[Holder][<<c, {1}>>]
        BY <1>9, <2>3, TwoSlots
      <3>2. Held(c)' = Held(c)
        BY <1>15, <3>1 DEF Held
      <3>3. Awaited(c)' <= Awaited(c) /\ Awaited(c)' \in Nat
        BY <1>3, BudgetNat DEF Awaited
      <3> QED
        BY <2>1, <3>2, <3>3 DEF Claim
    <2> QED
      BY <2>2, <2>3
  <1>17. ClaimsBounded' /\ PaidAndClaimed'
    BY <1>6, <1>9, <1>11, <1>16, ClaimsNotGrown
  <1>18. OnlyProjectHolds' /\ ReportedApproved'
    <2>1. \A a \in Address \ {Holder, Bidder} : positions'[a] = positions[a]
      BY <1>9 DEF OnlyRow
    <2>2. OnlyProjectHolds'
      BY <2>1 DEF EscrowInv, ClaimInv, OnlyProjectHolds
    <2>3. ReportedApproved'
      BY <1>6 DEF EscrowInv, ClaimInv, ReportedApproved, Reported
    <2> QED
      BY <2>2, <2>3
  <1>19. SplitsPrepared' /\ OneSplitEach'
    BY <1>3, <1>6 DEF EscrowInv, ClaimInv, SplitsPrepared, OneSplitEach, Prepared
  <1>20. ClaimInv'
    BY <1>17, <1>18, <1>19 DEF ClaimInv
  <1> QED
    BY <1>3, <1>8, <1>12, <1>13, <1>20, InvOfParts

\* transferCTtoBidder moves approval tokens from the escrow to the bidder: the
\* claim is theirs together.
LEMMA AuditorTransferKeeps ==
    ASSUME EscrowInv, NEW s \in AuditorSession, AuditorTransfer(s)
    PROVE  EscrowInv'
  <1>0. "success" \in SettingStep /\ "success" # "split"
    BY DEF SettingStep
  <1>1. PICK m \in Condition : /\ AuditorStep(s, "transfer", "success") /\ m = milestone[s]
                               /\ TransferCTtoBidder(s, <<m, {1}>>)
    BY <1>0, AuditorStepKeeps DEF AuditorTransfer
  <1>2. PICK p \in Position : p = <<m, {1}>>
    BY TwoSlots
  <1>3. positions \in PositionTable
    BY EscrowTypes
  <1>4. PICK w \in Nat : w = positions[Holder][p]
    BY <1>2, <1>3, ClaimNat
  <1>5. /\ FunderTypes' /\ AuditorTypes'
        /\ \A t \in AuditorSession, c \in Condition : AtSplit(t, c)' => AtSplit(t, c)
    BY <1>0, <1>1, AuditorStepKeeps
  <1>6. /\ SafeTransferFrom(Holder, Bidder, p, w) /\ UNCHANGED daiVars /\ UNCHANGED contractVars
    BY <1>1, <1>2, <1>4 DEF TransferCTtoBidder
  <1>7. Holder \in Address /\ Bidder \in Address /\ Holder # Bidder
    BY Parties
  <1>8. TokenInv'
    BY <1>6, <1>7, PositionTransferKeeps, PartsOfInv
  <1>9. /\ positions[Holder][p] >= w /\ InRange(Transferred(positions, Holder, Bidder, p, w)[Bidder])
        /\ positions' = Transferred(positions, Holder, Bidder, p, w)
        /\ payoutNumerators' = payoutNumerators /\ payoutDenominator' = payoutDenominator
        /\ balanceOf' = balanceOf /\ allowance' = allowance /\ totalSupply' = totalSupply
    BY <1>6 DEF SafeTransferFrom, Transferred, daiVars
  <1>10. /\ positions' \in PositionTable
         /\ \A x \in Address, y \in Position :
              positions'[x][y] =
                IF y # p \/ x \notin {Holder, Bidder} THEN positions[x][y]
                ELSE IF x = Holder THEN positions[x][y] - w
                ELSE positions[x][y] + w
    <2>1. PICK q \in PositionTable : q = positions
      BY <1>3
    <2>2. /\ Transferred(q, Holder, Bidder, p, w) \in PositionTable
          /\ \A x \in Address, y \in Position :
               Transferred(q, Holder, Bidder, p, w)[x][y] =
                 IF Holder = Bidder \/ y # p \/ x \notin {Holder, Bidder} THEN q[x][y]
                 ELSE IF x = Holder THEN q[x][y] - w
                 ELSE q[x][y] + w
      BY <1>7, <1>9, <2>1, TransferredFacts
    <2> QED
      BY <1>7, <1>9, <2>1, <2>2
  <1>11. AccountTypes' /\ fundedTokens' = fundedTokens /\ totalValue' = totalValue
    BY <1>6, AccountsRest
  <1>12. MoneyInv'
    BY <1>9, <1>11, MoneyUnmoved DEF EscrowInv, MoneyInv
  <1>13. ASSUME NEW c \in Condition
         PROVE  Claim(c)' <= Claim(c)
    <2>1. /\ positions[Holder][<<c, {1}>>] \in Nat /\ positions[Bidder][<<c, {1}>>] \in Nat
          /\ Held(c) \in Nat /\ Awaited(c) \in Nat /\ <<c, {1}>> \in Position
      BY <1>3, ClaimNat, TwoSlots
    <2>2. Held(c)' = Held(c)
      <3>1. CASE <<c, {1}>> = p
        <4>1. /\ positions'[Holder][<<c, {1}>>] = positions[Holder][<<c, {1}>>] - w
              /\ positions'[Bidder][<<c, {1}>>] = positions[Bidder][<<c, {1}>>] + w
          BY <1>7, <1>10, <2>1, <3>1
        <4> QED
          BY <2>1, <4>1 DEF Held
      <3>2. CASE <<c, {1}>> # p
        <4>1. /\ positions'[Holder][<<c, {1}>>] = positions[Holder][<<c, {1}>>]
              /\ positions'[Bidder][<<c, {1}>>] = positions[Bidder][<<c, {1}>>]
          BY <1>7, <1>10, <2>1, <3>2
        <4> QED
          BY <4>1 DEF Held
      <3> QED
        BY <3>1, <3>2
    <2>3. Awaited(c)' <= Awaited(c) /\ Awaited(c)' \in Nat
      BY <1>5, BudgetNat DEF Awaited
    <2> QED
      BY <2>1, <2>2, <2>3 DEF Claim
  <1>14. ClaimsBounded' /\ PaidAndClaimed'
    BY <1>9, <1>10, <1>13, ClaimsNotGrown
  <1>15. OnlyProjectHolds' /\ ReportedApproved'
    BY <1>9, <1>10 DEF EscrowInv, ClaimInv, OnlyProjectHolds, ReportedApproved, Reported
  <1>16. SplitsPrepared' /\ OneSplitEach'
    BY <1>5, <1>9 DEF EscrowInv, ClaimInv, SplitsPrepared, OneSplitEach, Prepared
  <1>17. ClaimInv'
    BY <1>14, <1>15, <1>16 DEF ClaimInv
  <1> QED
    BY <1>5, <1>8, <1>11, <1>12, <1>17, InvOfParts

\* The report opens the milestone's budget to the claims on it.
LEMMA ReportAuditKeeps ==
    ASSUME EscrowInv, NEW s \in AuditorSession, NEW m \in Condition, ReportAudit(s, m)
    PROVE  EscrowInv'
  <1>1. /\ ReportPayouts(Holder, m, Approval) /\ UNCHANGED daiVars /\ UNCHANGED contractVars
        /\ UNCHANGED funderVars /\ UNCHANGED auditorVars
    BY DEF ReportAudit, CallReportPayouts, Approval
  <1>2. /\ payoutDenominator[m] = 0 /\ positions' = positions
        /\ payoutNumerators' = [payoutNumerators EXCEPT ![m] = Approval]
        /\ payoutDenominator' = [payoutDenominator EXCEPT ![m] = 1]
        /\ balanceOf' = balanceOf /\ allowance' = allowance /\ totalSupply' = totalSupply
    BY <1>1, ApprovalSums DEF ReportPayouts, daiVars
  <1>3. TokenInv'
    BY <1>1, ApprovalSums, ReportKeeps, PartsOfInv
  <1>4. AccountTypes' /\ fundedTokens' = fundedTokens /\ totalValue' = totalValue
    BY <1>1, AccountsRest
  <1>5. FunderTypes' /\ AuditorTypes'
        /\ \A t \in AuditorSession, c \in Condition : AtSplit(t, c)' = AtSplit(t, c)
    BY <1>1, FundersRest, AuditorsRest
  <1>6. MoneyInv'
    BY <1>2, <1>4, MoneyUnmoved DEF EscrowInv, MoneyInv
  <1>7. /\ payoutNumerators \in [Condition -> [Slot -> Wad] \cup {Unprepared}]
        /\ payoutDenominator \in [Condition -> Wad]
    BY EscrowTypes, TypesOfTokens
  <1>8. /\ payoutNumerators'[m] = Approval /\ payoutDenominator'[m] = 1
        /\ \A c \in Condition \ {m} : /\ payoutNumerators'[c] = payoutNumerators[c]
                                      /\ payoutDenominator'[c] = payoutDenominator[c]
    BY <1>2, <1>7
  <1>9. Reported' = Reported \cup {m} /\ m \notin Reported
    BY <1>2, <1>8 DEF Reported
  <1>10. \A c \in Condition : Claim(c)' = Claim(c)
    <2>1. ASSUME NEW c \in Condition
          PROVE  Held(c)' = Held(c) /\ Awaited(c)' = Awaited(c)
      BY <1>2, <1>5 DEF Held, Awaited
    <2> QED
      BY <2>1 DEF Claim
  <1>11. \A c \in Condition : Claim(c) \in Nat /\ Budget[c] \in Nat
    BY EscrowTypes, ClaimNat, BudgetNat
  <1>12. ClaimsBounded'
    BY <1>9, <1>10 DEF EscrowInv, ClaimInv, ClaimsBounded
  <1>13. PaidAndClaimed'
    <2> DEFINE f == [c \in Condition |-> Claim(c)]
               R == Reported
               T == R \cup {m}
    <2>1. PaidAndClaimed' <=>
            balanceOf[Bidder] + SumFunctionOnSet(f, T) <= SumFunctionOnSet(Budget, T)
      <3>1. [c \in Condition |-> Claim(c)'] = f
        BY <1>10
      <3> QED
        BY <1>2, <1>9, <3>1 DEF PaidAndClaimed
    <2>2. balanceOf[Bidder] + SumFunctionOnSet(f, R) <= SumFunctionOnSet(Budget, R)
      BY DEF EscrowInv, ClaimInv, PaidAndClaimed
    <2>3. f[m] <= Budget[m] /\ f[m] \in Nat /\ Budget[m] \in Nat
      BY <1>9, <1>11 DEF EscrowInv, ClaimInv, ClaimsBounded
    <2>4. IsFiniteSet(R) /\ IsFiniteSet(T) /\ R \subseteq Condition /\ T \subseteq Condition
      BY BudgetNat, FS_AddElement
    <2>5. NatOn(f, R) /\ NatOn(f, T) /\ NatOn(Budget, R) /\ NatOn(Budget, T)
      BY <1>11, <2>4 DEF NatOn
    <2>6. T \ {m} = R /\ m \in T
      BY <1>9
    <2>7. balanceOf[Bidder] \in Nat
      BY EscrowTypes, Parties
    <2> HIDE DEF f, R, T
    <2>8. /\ SumFunctionOnSet(f, T) = f[m] + SumFunctionOnSet(f, R)
          /\ SumFunctionOnSet(Budget, T) = Budget[m] + SumFunctionOnSet(Budget, R)
      BY <2>4, <2>5, <2>6, SumRemove
    <2>9. SumFunctionOnSet(f, R) \in Nat /\ SumFunctionOnSet(Budget, R) \in Nat
      BY <2>4, <2>5, SumNat
    <2> QED
      BY <2>1, <2>2, <2>3, <2>7, <2>8, <2>9
  <1>14. OnlyProjectHolds'
    BY <1>2 DEF EscrowInv, ClaimInv, OnlyProjectHolds
  <1>15. ReportedApproved'
    <2>1. ASSUME NEW c \in Reported \cup {m}
          PROVE  payoutNumerators'[c] = Approval /\ payoutDenominator'[c] = 1
      <3>1. CASE c = m
        BY <1>8, <3>1
      <3>2. CASE c # m
        <4>1. c \in Reported /\ c \in Condition \ {m}
          BY <3>2, BudgetNat
        <4>2. payoutNumerators[c] = Approval /\ payoutDenominator[c] = 1
          BY <4>1 DEF EscrowInv, ClaimInv, ReportedApproved
        <4> QED
          BY <1>8, <4>1, <4>2
      <3> QED
        BY <3>1, <3>2
    <2> QED
      BY <1>9, <2>1 DEF ReportedApproved
  <1>16. SplitsPrepared' /\ OneSplitEach'
    <2>1. Approval # Unprepared
      BY ApprovalSums, ConditionalTokensAssumption
    <2>2. \A c \in Condition : Prepared(c) => Prepared(c)'
      BY <1>8, <2>1 DEF Prepared
    <2> QED
      BY <1>5, <2>2 DEF EscrowInv, ClaimInv, SplitsPrepared, OneSplitEach
  <1>17. ClaimInv'
    BY <1>12, <1>13, <1>14, <1>15, <1>16 DEF ClaimInv
  <1> QED
    BY <1>3, <1>4, <1>5, <1>6, <1>17, InvOfParts

\* A redemption pays one Dai for each approval token it burns; only the bidder
\* has any.
LEMMA RedeemTokensKeeps ==
    ASSUME EscrowInv, NEW s \in AuditorSession, NEW m \in Condition, RedeemTokens(s, m)
    PROVE  EscrowInv'
  <1> DEFINE F == {{1}}
             pay == [I \in F |-> Payout(s, m, I)]
             total == SumFunctionOnSet(pay, F)
  <1>1. /\ RedeemPositions(s, m, F) /\ UNCHANGED contractVars
        /\ UNCHANGED funderVars /\ UNCHANGED auditorVars
    BY DEF RedeemTokens
  <1>2. /\ payoutDenominator[m] > 0
        /\ IF total > 0 THEN TransferFrom(CT, CT, s, total) ELSE UNCHANGED daiVars
        /\ payoutNumerators' = payoutNumerators /\ payoutDenominator' = payoutDenominator
    BY <1>1 DEF RedeemPositions
  <1>3. /\ s \in Address \ {CT} /\ s \in Address /\ s # Holder /\ s # Token /\ s # CT
        /\ CT \in Address /\ Holder \in Address /\ Token \in Address /\ Bidder \in Address
        /\ Token # CT /\ Holder # CT /\ Bidder # CT /\ Bidder # Holder /\ Bidder # Token
    BY Parties
  <1>4. positions \in PositionTable /\ ConditionalTokensTypeOK /\ DaiTypeOK
    BY EscrowTypes
  <1>5. TokenInv'
    <2> HIDE DEF F
    <2> QED
      BY <1>1, <1>3, RedeemKeeps, PartsOfInv
  <1>6. /\ positions' \in PositionTable /\ OnlyRow(positions, positions', s)
        /\ \A e \in Condition, I \in IndexSet :
             positions'[s][<<e, I>>] =
               IF e = m /\ I \in F THEN 0 ELSE positions[s][<<e, I>>]
    <2> HIDE DEF F
    <2> QED
      BY <1>1, <1>3, <1>4, RedeemedFacts
  <1>7. PICK k \in Nat : k = positions[s][<<m, {1}>>]
    BY <1>3, <1>4, TwoSlots, TableNat
  <1>8. m \in Reported /\ payoutDenominator[m] = 1 /\ payoutNumerators[m] = Approval
    BY <1>2 DEF EscrowInv, ClaimInv, ReportedApproved, Reported
  <1>9. Payout(s, m, {1}) = k
    <2>1. Numerator(m, {1}) = 1
      BY <1>8, ApprovalSums DEF Numerator
    <2>2. (k * 1) \div 1 = k
      OBVIOUS
    <2> QED
      BY <1>7, <1>8, <2>1, <2>2 DEF Payout
  <1>10. total = k
    <2>1. pay[{1}] = k
      BY <1>9
    <2>2. F = {{1}}
      OBVIOUS
    <2> HIDE DEF pay, F
    <2> QED
      BY <2>1, <2>2, SumOne
  <1>11. s # Bidder => k = 0
    BY <1>3, <1>7, TwoSlots DEF EscrowInv, ClaimInv, OnlyProjectHolds
  <1> HIDE DEF total, pay, F
  <1>12. /\ \A x \in Address : balanceOf'[x] = BalanceAfter(CT, s, k, x)
         /\ allowance' = allowance /\ totalSupply' = totalSupply
    <2>1. CASE k > 0
      <3>1. TransferFrom(CT, CT, s, k)
        BY <1>2, <1>10, <2>1
      <3>2. \A x \in Address : balanceOf'[x] = BalanceAfter(CT, s, k, x)
        BY <1>3, <1>4, <3>1, TransferFromKeeps
      <3>3. allowance' = allowance /\ totalSupply' = totalSupply
        BY <3>1 DEF TransferFrom, Spent, Metered
      <3> QED
        BY <3>2, <3>3
    <2>2. CASE k = 0
      <3>1. balanceOf' = balanceOf /\ allowance' = allowance /\ totalSupply' = totalSupply
        BY <1>2, <1>10, <2>2 DEF daiVars
      <3>2. \A x \in Address : balanceOf[x] \in Nat
        BY EscrowTypes
      <3> QED
        BY <2>2, <3>1, <3>2 DEF BalanceAfter
    <2> QED
      BY <2>1, <2>2
  <1>13. /\ balanceOf'[CT] = balanceOf[CT] - k /\ balanceOf'[Bidder] = balanceOf[Bidder] + k
         /\ balanceOf'[Token] = balanceOf[Token] /\ balanceOf'[Holder] = balanceOf[Holder]
    <2>1. \A x \in Address : balanceOf[x] \in Nat
      BY EscrowTypes
    <2> QED
      BY <1>3, <1>11, <1>12, <2>1 DEF BalanceAfter
  <1>14. AccountTypes' /\ fundedTokens' = fundedTokens /\ totalValue' = totalValue
    BY <1>1, AccountsRest
  <1>15. FunderTypes' /\ AuditorTypes'
        /\ \A t \in AuditorSession, c \in Condition : AtSplit(t, c)' = AtSplit(t, c)
    BY <1>1, FundersRest, AuditorsRest
  <1>16. MoneyInv'
    <2>1. balanceOf[Token] + balanceOf[Holder] + balanceOf[CT] + balanceOf[Bidder]
            = balanceOf'[Token] + balanceOf'[Holder] + balanceOf'[CT] + balanceOf'[Bidder]
      BY <1>3, <1>13, EscrowTypes
    <2>2. FundingConserved'
      BY <1>14, <2>1 DEF EscrowInv, MoneyInv, FundingConserved
    <2>3. EscrowAccountsAgree' /\ totalSupply' <= MaxSupply
      BY <1>12, <1>13, <1>14 DEF EscrowInv, MoneyInv, EscrowAccountsAgree
    <2> QED
      BY <2>2, <2>3 DEF MoneyInv
  <1>17. {1} \in F /\ \A c \in Condition : {1} \in IndexSet
    BY TwoSlots DEF F
  <1>18. /\ Claim(m)' + k = Claim(m)
         /\ \A c \in Condition \ {m} : Claim(c)' = Claim(c)
    <2>1. positions'[Holder] = positions[Holder]
      BY <1>3, <1>6 DEF OnlyRow
    <2>2. \A c \in Condition : Awaited(c)' = Awaited(c)
      BY <1>15 DEF Awaited
    <2>3. \A c \in Condition \ {m} : positions'[Bidder][<<c, {1}>>] = positions[Bidder][<<c, {1}>>]
      BY <1>3, <1>6, <1>17 DEF OnlyRow
    <2>4. ASSUME NEW c \in Condition \ {m}
          PROVE  Claim(c)' = Claim(c)
      BY <2>1, <2>2, <2>3 DEF Claim, Held
    <2>5. positions'[Bidder][<<m, {1}>>] + k = positions[Bidder][<<m, {1}>>]
      <3>1. positions[Bidder][<<m, {1}>>] \in Nat
        BY <1>4, ClaimNat
      <3>2. CASE s = Bidder
        <4>1. positions'[Bidder][<<m, {1}>>] = 0
          BY <1>6, <1>17, <3>2
        <4> QED
          BY <1>7, <3>1, <3>2, <4>1
      <3>3. CASE s # Bidder
        BY <1>3, <1>6, <1>11, <3>1, <3>3 DEF OnlyRow
      <3> QED
        BY <3>2, <3>3
    <2>6. /\ positions[Holder][<<m, {1}>>] \in Nat /\ Awaited(m) \in Nat
          /\ positions[Bidder][<<m, {1}>>] \in Nat
      BY <1>4, ClaimNat
    <2>7. positions'[Bidder][<<m, {1}>>] \in Nat
      BY <1>3, <1>6, <1>17, TableNat
    <2>8. Claim(m)' + k = Claim(m)
      BY <2>1, <2>2, <2>5, <2>6, <2>7 DEF Claim, Held
    <2> QED
      BY <2>4, <2>8
  <1>19. \A c \in Condition : Claim(c) \in Nat /\ Claim(c)' \in Nat
    BY <1>4, <1>6, ClaimNat, ClaimNatNext
  <1>20. Reported' = Reported
    BY <1>2 DEF Reported
  <1>21. ClaimsBounded'
    BY <1>8, <1>18, <1>20 DEF EscrowInv, ClaimInv, ClaimsBounded
  <1>22. PaidAndClaimed'
    <2> DEFINE f == [c \in Condition |-> Claim(c)]
               g == [c \in Condition |-> Claim(c)']
               R == Reported
    <2>1. /\ balanceOf[Bidder] + SumFunctionOnSet(f, R) <= SumFunctionOnSet(Budget, R)
          /\ PaidAndClaimed' <=>
               balanceOf'[Bidder] + SumFunctionOnSet(g, R) <= SumFunctionOnSet(Budget, R)
      BY <1>20 DEF EscrowInv, ClaimInv, PaidAndClaimed
    <2>2. IsFiniteSet(R) /\ NatOn(Budget, R) /\ R \subseteq Condition /\ m \in R
      BY <1>8, BudgetNat
    <2>3. NatOn(f, R) /\ NatOn(g, R) /\ \A c \in R \ {m} : g[c] = f[c]
      BY <1>18, <1>19, <2>2 DEF NatOn
    <2>4. g[m] + k = f[m] /\ g[m] \in Nat /\ f[m] \in Nat
      BY <1>18, <1>19
    <2>5. balanceOf[Bidder] \in Nat
      BY <1>3, EscrowTypes
    <2> HIDE DEF f, g, R
    <2>6. SumFunctionOnSet(g, R) + f[m] = SumFunctionOnSet(f, R) + g[m]
      BY <2>2, <2>3, SumChange
    <2>7. /\ SumFunctionOnSet(g, R) \in Nat /\ SumFunctionOnSet(f, R) \in Nat
          /\ SumFunctionOnSet(Budget, R) \in Nat
      BY <2>2, <2>3, SumNat
    <2> QED
      BY <1>13, <2>1, <2>4, <2>5, <2>6, <2>7
  <1>23. OnlyProjectHolds'
    <2>1. ASSUME NEW a \in Address \ {Holder, Bidder}, NEW p \in Position
          PROVE  positions'[a][p] = 0
      <3>1. positions[a][p] = 0
        BY DEF EscrowInv, ClaimInv, OnlyProjectHolds
      <3>2. PICK c \in Condition, I \in IndexSet : p = <<c, I>>
        BY DEF Position
      <3> QED
        BY <1>6, <3>1, <3>2 DEF OnlyRow
    <2> QED
      BY <2>1 DEF OnlyProjectHolds
  <1>24. ReportedApproved' /\ SplitsPrepared' /\ OneSplitEach'
    BY <1>2, <1>15, <1>20
    DEF EscrowInv, ClaimInv, ReportedApproved, SplitsPrepared, OneSplitEach, Prepared
  <1>25. ClaimInv'
    BY <1>21, <1>22, <1>23, <1>24 DEF ClaimInv
  <1> QED
    BY <1>5, <1>14, <1>15, <1>16, <1>25, InvOfParts

-----------------------------------------------------------------------------
(* The theorem.                                                             *)

LEMMA InitialEscrow ==
    ASSUME EscrowInit
    PROVE  EscrowInv
  <1>1. TokenInv
    BY InitialTokens DEF EscrowInit
  <1>2. /\ balanceOf = [a \in Address |-> 0]
        /\ allowance = [a \in Address |-> [b \in Address |-> 0]] /\ totalSupply = 0
        /\ payoutDenominator = [c \in Condition |-> 0]
        /\ positions = [a \in Address |-> [p \in Position |-> 0]]
    BY DEF EscrowInit, CollateralInit, DaiInit, ConditionalTokensInit
  <1>3. EscrowTypeOK
    <2>1. ConditionalTokensTypeOK
      BY <1>1 DEF TokenInv, TokensConsistent
    <2>2. 0 \in Wad
      BY DaiAssumption DEF Wad
    <2> QED
      BY <2>1, <2>2, Parties, EscrowAssumption DEF EscrowInit, EscrowTypeOK
  <1>4. MoneyInv
    <2>1. fundedTokens = <<>> /\ totalValue = 0
      BY DEF EscrowInit
    <2>2. DOMAIN fundedTokens = {}
      BY <2>1
    <2>3. Sold(fundedTokens) = 0
      BY <2>2, SumEmpty DEF Sold
    <2>4. \A x \in {Token, Holder, CT, Bidder} : balanceOf[x] = 0
      BY <1>2, Parties
    <2>5. FundingConserved
      BY <2>3, <2>4 DEF Sold, FundingConserved
    <2>6. EscrowAccountsAgree
      BY <1>2, <2>1, <2>4, Parties DEF EscrowAccountsAgree
    <2>7. totalSupply <= MaxSupply
      BY <1>2, EscrowAssumption
    <2> QED
      BY <2>5, <2>6, <2>7 DEF MoneyInv
  <1>5. ClaimInv
    <2>1. \A s \in AuditorSession, c \in Condition : ~AtSplit(s, c)
      BY DEF EscrowInit, AtSplit
    <2>2. Reported = {}
      BY <1>2 DEF Reported
    <2>3. \A a \in Address, p \in Position : positions[a][p] = 0
      BY <1>2
    <2>4. ASSUME NEW c \in Condition
          PROVE  Claim(c) <= Budget[c]
      <3>1. Held(c) = 0
        BY <2>3, Parties, TwoSlots DEF Held
      <3>2. Awaited(c) = 0
        BY <2>1 DEF Awaited
      <3> QED
        BY <3>1, <3>2, BudgetNat DEF Claim
    <2>5. PaidAndClaimed
      <3>1. balanceOf[Bidder] = 0
        BY <1>2, Parties
      <3> QED
        BY <2>2, <3>1, SumEmpty DEF PaidAndClaimed
    <2> QED
      BY <2>1, <2>2, <2>3, <2>4, <2>5
      DEF ClaimInv, OnlyProjectHolds, ReportedApproved, SplitsPrepared, OneSplitEach,
          ClaimsBounded
  <1> QED
    BY <1>1, <1>3, <1>4, <1>5 DEF EscrowInv

LEMMA EscrowStep ==
    ASSUME EscrowInv, EscrowNext
    PROVE  EscrowInv'
  <1>1. CASE StartFunding
    BY <1>1, StartFundingKeeps
  <1>2. CASE \E f \in Funder, w \in Amount : Faucet(f, w)
    BY <1>2, FaucetKeeps
  <1>3. CASE FunderPage
    BY <1>3, FunderSubmitKeeps, FunderApproveKeeps, FunderBuyOneKeeps, FunderRecieveKeeps,
       FunderErrorKeeps
    DEF FunderPage
  <1>4. CASE AuditorPage
    BY <1>4, SetConditionsKeeps, ReportAuditKeeps, AuditorPrepareKeeps, AuditorSplitKeeps,
       AuditorTransferKeeps, AuditorErrorKeeps
    DEF AuditorPage
  <1>5. CASE BidderPage
    BY <1>5, RedeemTokensKeeps DEF BidderPage
  <1> QED
    BY <1>1, <1>2, <1>3, <1>4, <1>5 DEF EscrowNext

LEMMA EscrowStutter ==
    ASSUME EscrowInv, UNCHANGED escrowVars
    PROVE  EscrowInv'
  <1>1. /\ UNCHANGED <<daiVars, ctVars>> /\ UNCHANGED contractVars
        /\ UNCHANGED funderVars /\ UNCHANGED auditorVars
    BY DEF escrowVars
  <1> QED
    BY <1>1, AccountsRest, FundersRest, AuditorsRest, PagesOnly

LEMMA EscrowInvariant == EscrowSpec => []EscrowInv
  <1>1. EscrowInit => EscrowInv
    BY InitialEscrow
  <1>2. EscrowInv /\ [EscrowNext]_escrowVars => EscrowInv'
    BY EscrowStep, EscrowStutter
  <1> QED
    BY <1>1, <1>2, PTL DEF EscrowSpec

\* Whatever the funders', auditors' and bidder's pages do between each other's
\* transactions, the escrow's totalValue, its Dai and its allowance to
\* ConditionalTokens agree, all funding is accounted for, and the bidder has been
\* paid no more than the budgets of the milestones reported on.
THEOREM EscrowSafe == EscrowSpec => []EscrowConsistent
  <1>1. EscrowInv => EscrowConsistent
    BY ClaimsCoverPayments
  <1> QED
    BY <1>1, EscrowInvariant, PTL

\* The conditional tokens of a project stay solvent as its pages use them: the
\* escrow calls splitPosition and reportPayouts itself, an account that is no User
\* of the contract on its own.
THEOREM EscrowSolvent == EscrowSpec => []TokensConsistent
  <1>1. EscrowInv => TokensConsistent
    BY DEF EscrowInv, TokenInv
  <1> QED
    BY <1>1, EscrowInvariant, PTL
==============================================================================
