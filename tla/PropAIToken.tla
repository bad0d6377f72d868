---------------------------- MODULE PropAIToken ----------------------------
(***************************************************************************)
(* The security token PropAIToken: whitelisted holders, a lockup, and      *)
(* dividends by an accumulated amount per token (settle before a balance   *)
(* changes, synchronise after).  Divisions round down as in the contract.  *)
(* Each function is one step: claimDividend writes before it transfers, a  *)
(* call back from the recipient is one after the return, and a failure     *)
(* undoes the transaction.  The allowance of a spender is an amount per    *)
(* holder; which spender uses it changes nothing else.                     *)
(***************************************************************************)
EXTENDS Integers, FiniteSets, Functions

CONSTANTS
    Accounts,
    PRECISION,        \* 1e18, the unit of dividendPerToken
    MaxSupply,        \* bound: the largest supply
    MaxPerToken,      \* bound: on dividendPerToken
    MaxSyncs,         \* bound: the changes of balances
    MaxDeposit        \* bound: the largest distribution

ASSUME TokenAssumption ==
    /\ IsFiniteSet(Accounts)
    /\ PRECISION \in Nat \ {0}
    /\ MaxSupply \in Nat /\ MaxPerToken \in Nat /\ MaxSyncs \in Nat /\ MaxDeposit \in Nat

VARIABLES
    balanceOf, totalSupply, whitelisted, allowance,
    dividendCredit, dividendDebit, dividendPerToken,
    totalDividendsDistributed,
    lockedUp,         \* block.timestamp < lockupEndTime
    tokenPaused,      \* Pausable
    claimed,          \* what claimDividend has sent
    syncs             \* how often _syncDividendDebit has run

tokenVars == <<balanceOf, totalSupply, whitelisted, allowance, dividendCredit,
               dividendDebit, dividendPerToken, totalDividendsDistributed,
               lockedUp, tokenPaused, claimed, syncs>>
switches == <<lockedUp, tokenPaused>>
deposits == <<dividendPerToken, totalDividendsDistributed>>

TokenInit ==
    /\ balanceOf = [a \in Accounts |-> 0] /\ totalSupply = 0
    /\ whitelisted = {} /\ allowance = [a \in Accounts |-> 0]
    /\ dividendCredit = [a \in Accounts |-> 0]
    /\ dividendDebit = [a \in Accounts |-> 0]
    /\ dividendPerToken = 0 /\ totalDividendsDistributed = 0
    /\ lockedUp \in BOOLEAN /\ tokenPaused = FALSE
    /\ claimed = 0 /\ syncs = 0

-----------------------------------------------------------------------------
(* Dividends of a balance.                                                 *)

share(amount) == (amount * dividendPerToken) \div PRECISION
owed(a) == share(balanceOf[a])

\* _settleDividend of an account, as the new credit; pendingDividend.
settled(a) == dividendCredit[a] + (owed(a) - dividendDebit[a])

\* The changes of balance in a call: the accounts of who are settled, then hold
\* now, then are synchronised.
\* (mutant: without the synchronisation)
RebalancedUnsynced(who, now) ==
    /\ dividendCredit' = [a \in Accounts |-> IF a \in who THEN settled(a) ELSE dividendCredit[a]]
    /\ balanceOf' = now
    /\ dividendDebit' = [a \in Accounts |-> IF a \in who THEN owed(a) ELSE dividendDebit[a]]
    /\ syncs' = syncs + Cardinality(who)
Rebalanced(who, now) ==
    /\ dividendCredit' = [a \in Accounts |-> IF a \in who THEN settled(a) ELSE dividendCredit[a]]
    /\ balanceOf' = now
    /\ dividendDebit' = [a \in Accounts |-> IF a \in who THEN share(now[a]) ELSE dividendDebit[a]]
    /\ syncs' = syncs + Cardinality(who)

-----------------------------------------------------------------------------
(* Tokens.                                                                 *)

\* batchSetWhitelist repeats this.
setWhitelist(a, status) ==
    /\ whitelisted' = IF status THEN whitelisted \cup {a} ELSE whitelisted \ {a}
    /\ UNCHANGED <<balanceOf, totalSupply, allowance, dividendCredit, dividendDebit,
                   deposits, switches, claimed, syncs>>

mint(a, amount) ==
    /\ a \in whitelisted /\ ~tokenPaused
    /\ totalSupply + amount <= MaxSupply /\ syncs < MaxSyncs
    /\ totalSupply' = totalSupply + amount
    /\ Rebalanced({a}, [balanceOf EXCEPT ![a] = @ + amount])
    /\ UNCHANGED <<whitelisted, allowance, deposits, switches, claimed>>

\* Nor the whitelist, nor the lockup, nor the pause stops a burn.
burn(a, amount) ==
    /\ amount <= balanceOf[a] /\ syncs < MaxSyncs
    /\ totalSupply' = totalSupply - amount
    /\ Rebalanced({a}, [balanceOf EXCEPT ![a] = @ - amount])
    /\ UNCHANGED <<whitelisted, allowance, deposits, switches, claimed>>

\* The balances after a transfer; to oneself nothing moves.
moved(from, to, amount) ==
    [[balanceOf EXCEPT ![from] = @ - amount] EXCEPT ![to] = @ + amount]

transferable(from, to, amount) ==
    /\ ~lockedUp /\ ~tokenPaused /\ {from, to} \subseteq whitelisted
    /\ amount <= balanceOf[from] /\ syncs < MaxSyncs

transfer(from, to, amount) ==
    /\ transferable(from, to, amount)
    /\ Rebalanced({from, to}, moved(from, to, amount))
    /\ UNCHANGED <<totalSupply, whitelisted, allowance, deposits, switches, claimed>>

approve(a, amount) ==
    /\ allowance' = [allowance EXCEPT ![a] = amount]
    /\ UNCHANGED <<balanceOf, totalSupply, whitelisted, dividendCredit, dividendDebit,
                   deposits, switches, claimed, syncs>>

transferFrom(from, to, amount) ==
    /\ amount <= allowance[from]
    /\ transferable(from, to, amount)
    /\ allowance' = [allowance EXCEPT ![from] = @ - amount]
    /\ Rebalanced({from, to}, moved(from, to, amount))
    /\ UNCHANGED <<totalSupply, whitelisted, deposits, switches, claimed>>

-----------------------------------------------------------------------------
(* Dividends.                                                              *)

perToken(amount) == (amount * PRECISION) \div totalSupply

distributeDividend(amount) ==
    /\ totalSupply > 0
    /\ dividendPerToken + perToken(amount) <= MaxPerToken
    /\ totalDividendsDistributed + amount <= MaxPerToken
    /\ dividendPerToken' = dividendPerToken + perToken(amount)
    /\ totalDividendsDistributed' = totalDividendsDistributed + amount
    /\ UNCHANGED <<balanceOf, totalSupply, whitelisted, allowance, dividendCredit,
                   dividendDebit, switches, claimed, syncs>>

\* The contract has what was distributed and not claimed; more makes the
\* transfer fail.
balance == totalDividendsDistributed - claimed

claimDividend(a) ==
    /\ settled(a) > 0 /\ settled(a) <= balance
    /\ claimed' = claimed + settled(a)
    /\ dividendCredit' = [dividendCredit EXCEPT ![a] = 0]
    /\ dividendDebit' = [dividendDebit EXCEPT ![a] = owed(a)]
    /\ UNCHANGED <<balanceOf, totalSupply, whitelisted, allowance, deposits, switches, syncs>>

\* setLockupEndTime, or time passing; pause and unpause.
setLockupEndTime ==
    /\ lockedUp' = ~lockedUp
    /\ UNCHANGED <<balanceOf, totalSupply, whitelisted, allowance, dividendCredit,
                   dividendDebit, deposits, tokenPaused, claimed, syncs>>
pauseToken ==
    /\ tokenPaused' = ~tokenPaused
    /\ UNCHANGED <<balanceOf, totalSupply, whitelisted, allowance, dividendCredit,
                   dividendDebit, deposits, lockedUp, claimed, syncs>>

TokenNext ==
    \/ \E a \in Accounts, status \in BOOLEAN : setWhitelist(a, status)
    \/ \E a \in Accounts, amount \in 1..MaxSupply : mint(a, amount) \/ burn(a, amount)
    \/ \E a \in Accounts, amount \in 0..MaxSupply : approve(a, amount)
    \/ \E a, b \in Accounts, amount \in 1..MaxSupply :
          transfer(a, b, amount) \/ transferFrom(a, b, amount)
    \/ \E amount \in 1..MaxDeposit : distributeDividend(amount)
    \/ \E a \in Accounts : claimDividend(a)
    \/ setLockupEndTime \/ pauseToken

TokenSpec == TokenInit /\ [][TokenNext]_tokenVars

-----------------------------------------------------------------------------
(* Properties.                                                             *)

\* Amounts are well formed, none is negative, and the supply is what there is.
TokenTypeOK ==
    /\ balanceOf \in [Accounts -> Nat] /\ totalSupply \in Nat
    /\ whitelisted \subseteq Accounts /\ allowance \in [Accounts -> Nat]
    /\ dividendCredit \in [Accounts -> Nat] /\ dividendDebit \in [Accounts -> Nat]
    /\ dividendPerToken \in Nat /\ totalDividendsDistributed \in Nat
    /\ lockedUp \in BOOLEAN /\ tokenPaused \in BOOLEAN
    /\ claimed \in Nat /\ syncs \in Nat
    /\ totalSupply = SumFunctionOnSet(balanceOf, Accounts)

\* The subtraction of _settleDividend never underflows, which would lock the
\* tokens and the dividends of the account: the debit is what the balance of
\* now was owed at an earlier time.  All that is claimed or can be claimed was
\* distributed, up to less than one unit for each time a balance was synchronised:
\* no token earns dividends from before it was minted, or twice when it moves.
DividendsCovered ==
    /\ \A a \in Accounts : dividendDebit[a] <= owed(a)
    /\ (claimed + SumFunctionOnSet([a \in Accounts |-> settled(a)], Accounts)) * PRECISION
          <= totalDividendsDistributed * PRECISION + syncs * (PRECISION - 1)
=============================================================================
