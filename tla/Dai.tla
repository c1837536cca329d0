-------------------------------- MODULE Dai --------------------------------
(***************************************************************************)
(* Dai.sol, the ERC20 stable coin the projects are funded in.  An action is*)
(* one successful call; msg.sender is its parameter sender (or spender).   *)
(* A call that fails a require, or whose checked arithmetic overflows,     *)
(* reverts the whole transaction: the action is not enabled.  Events, the  *)
(* EIP-712 hashing and the nonces of permit are left out.                  *)
(***************************************************************************)
EXTENDS Integers

CONSTANTS Address,   \* every account, contracts included
          MaxUint    \* uint256(-1): the largest amount, and "unlimited" as an allowance

ASSUME DaiAssumption == MaxUint \in Nat \ {0}

VARIABLES balanceOf, allowance, totalSupply

daiVars == <<balanceOf, allowance, totalSupply>>

Wad == 0..MaxUint

DaiTypeOK ==
  /\ balanceOf \in [Address -> Wad]
  /\ allowance \in [Address -> [Address -> Wad]]
  /\ totalSupply \in Wad

DaiInit ==
  /\ balanceOf = [a \in Address |-> 0]
  /\ allowance = [a \in Address |-> [b \in Address |-> 0]]
  /\ totalSupply = 0

\* The allowance test of transferFrom and burn: an account spends its own
\* balance freely, and an unlimited allowance is never used up.
Metered(src, spender) == src # spender /\ allowance[src][spender] # MaxUint

MaySpend(src, spender, wad) ==
  /\ balanceOf[src] >= wad
  /\ Metered(src, spender) => allowance[src][spender] >= wad

Spent(src, spender, wad) ==
  IF Metered(src, spender)
  THEN [allowance EXCEPT ![src][spender] = @ - wad]
  ELSE allowance

\* balanceOf after wad has moved from src to dst, in the order of the two
\* assignments: a transfer to oneself changes nothing.
Moved(src, dst, wad) ==
  LET debited == [balanceOf EXCEPT ![src] = @ - wad]
  IN  [debited EXCEPT ![dst] = @ + wad]

\* transferFrom; transfer, push, pull and move are calls of it.
TransferFrom(spender, src, dst, wad) ==
  /\ MaySpend(src, spender, wad)
  /\ Moved(src, dst, wad)[dst] <= MaxUint
  /\ balanceOf' = Moved(src, dst, wad)
  /\ allowance' = Spent(src, spender, wad)
  /\ UNCHANGED totalSupply

\* mint: open to every caller.
Mint(usr, wad) ==
  /\ balanceOf[usr] + wad <= MaxUint
  /\ totalSupply + wad <= MaxUint
  /\ balanceOf' = [balanceOf EXCEPT ![usr] = @ + wad]
  /\ totalSupply' = totalSupply + wad
  /\ UNCHANGED allowance

Burn(sender, usr, wad) ==
  /\ MaySpend(usr, sender, wad)
  /\ totalSupply >= wad
  /\ balanceOf' = [balanceOf EXCEPT ![usr] = @ - wad]
  /\ allowance' = Spent(usr, sender, wad)
  /\ totalSupply' = totalSupply - wad

\* approve: sets the allowance, whatever it was.
Approve(sender, usr, wad) ==
  /\ allowance' = [allowance EXCEPT ![sender][usr] = wad]
  /\ UNCHANGED <<balanceOf, totalSupply>>

\* permit: approval by signature, unlimited or none.
Permit(holder, spender, allowed) ==
  Approve(holder, spender, IF allowed THEN MaxUint ELSE 0)
=============================================================================
