----------------------------- MODULE UnitOfWork ------------------------------
(***************************************************************************)
(* design_patterns.py, 12: transfer(), one after another, each inside a    *)
(* UnitOfWork.  Nothing suspends between __aenter__ and __aexit__, so no   *)
(* two units overlap; what can happen inside one is that it raises.        *)
(***************************************************************************)
EXTENDS Integers, FiniteSetsExt

CONSTANTS
  Account, Unknown,  \* wallets in the table; keys that are not there
  BALANCE, Amount,   \* what each wallet begins with; amounts asked for, of any sign
  MaxTaken           \* bound: what amounts below zero take from a wallet

VARIABLES
  committed, pending,
  transfer,  \* the call under way: where it is, and its arguments
  booked,    \* history: the balances by the calls that returned,
  taken      \* and what those below zero took from the wallets they name as dst

vars == <<committed, pending, transfer, booked, taken>>

NoCall == [at |-> "none"]

Init ==
  /\ committed = [a \in Account |-> BALANCE]
  /\ pending = committed /\ booked = committed
  /\ transfer = NoCall
  /\ taken = [a \in Account |-> 0]

At(s) == transfer.at = s
Goto(s) == transfer' = [transfer EXCEPT !.at = s]

\* A unit writes to its own copy.
WritesTable(balances) == pending' = balances /\ committed' = balances  \* mutant: not a copy
WritesCopy(balances) == pending' = balances /\ UNCHANGED committed

\* What is taken from a wallet by a credit of n.
Loss(n) == IF n < 0 THEN -n ELSE 0

Enter(src, dst, n) ==
  /\ At("none")
  /\ n < 0 /\ dst \in Account => taken[dst] + Loss(n) <= MaxTaken
  /\ pending' = committed
  /\ transfer' = [at |-> "debit", src |-> src, dst |-> dst, amount |-> n]
  /\ UNCHANGED <<committed, booked, taken>>

Debit ==
  /\ At("debit")
  /\ transfer.src \in Account /\ pending[transfer.src] >= transfer.amount
  /\ WritesCopy([pending EXCEPT ![transfer.src] = @ - transfer.amount])
  /\ Goto("credit")
  /\ UNCHANGED <<booked, taken>>

Credit ==
  /\ At("credit") /\ transfer.dst \in Account
  /\ WritesCopy([pending EXCEPT ![transfer.dst] = @ + transfer.amount])
  /\ Goto("commit")
  /\ UNCHANGED <<booked, taken>>

\* __aexit__ without an exception
Commit ==
  /\ At("commit")
  /\ committed' = pending
  /\ booked' = [[booked EXCEPT ![transfer.src] = @ - transfer.amount]
                        EXCEPT ![transfer.dst] = @ + transfer.amount]
  /\ taken' = [taken EXCEPT ![transfer.dst] = @ + Loss(transfer.amount)]
  /\ transfer' = NoCall
  /\ UNCHANGED pending

\* ValueError, or KeyError from the first or, after the debit, the last line.
Raise ==
  /\ \/ At("debit") /\ (transfer.src \in Account => pending[transfer.src] < transfer.amount)
     \/ At("credit") /\ transfer.dst \notin Account
  /\ transfer' = NoCall
  /\ UNCHANGED <<committed, pending, booked, taken>>

Next ==
  \/ \E src, dst \in Account \cup Unknown, n \in Amount : Enter(src, dst, n)
  \/ Debit \/ Credit \/ Commit \/ Raise

-----------------------------------------------------------------------------
\* Whatever raises, and wherever, the table holds the transfers that returned
\* and nothing of the others: no money comes or goes.  transfer() does not refuse
\* an amount below zero, for which nobody looks at the wallet that pays: only by
\* what such amounts took from it is a wallet ever overdrawn.
TransfersWhole ==
  /\ committed = booked
  /\ SumFunction(committed) = BALANCE * Cardinality(Account)
  /\ \A a \in Account : committed[a] + taken[a] >= 0
=============================================================================
