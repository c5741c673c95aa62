------------------------------ MODULE Accounts ------------------------------
(* What the portfolio ledger promises about money, with no lots, orders or   *)
(* prices in it: every entry moves value between settled cash, receivables,  *)
(* payables, the book cost of what is held, and what has been earned.        *)
(* PortfolioLedger and the engine around it are shown to implement this.     *)
EXTENDS Integers

CONSTANT InitialCash    \* a whole number: PortfolioLedger assumes it

VARIABLES
    cash,           \* settled cash; it may go below zero
    receivables,    \* proceeds and dividends not settled yet
    payables,       \* purchases and subscriptions not settled yet
    bookCost,       \* what the open lots cost, fees included
    earned          \* realized profit, losses deducted, plus dividends

vars == <<cash, receivables, payables, bookCost, earned>>

Init ==
    /\ cash = InitialCash
    /\ receivables = 0
    /\ payables = 0
    /\ bookCost = 0
    /\ earned = 0

\* A purchase or a rights issue is owed first; it is carried at what it costs.
Acquire(amount) ==
    /\ amount \in Nat \ {0}
    /\ payables' = payables + amount
    /\ bookCost' = bookCost + amount
    /\ UNCHANGED <<cash, receivables, earned>>

\* A sale or a liquidation takes some of the book cost away, and the rest of
\* the proceeds is earned.
Dispose(proceeds, removed) ==
    /\ proceeds \in Nat \ {0}
    /\ removed \in 0..bookCost
    /\ receivables' = receivables + proceeds
    /\ bookCost' = bookCost - removed
    /\ earned' = earned + (proceeds - removed)
    /\ UNCHANGED <<cash, payables>>

Receive(amount) ==
    /\ amount \in Nat \ {0}
    /\ receivables' = receivables + amount
    /\ earned' = earned + amount
    /\ UNCHANGED <<cash, payables, bookCost>>

SettlePayable(amount) ==
    /\ amount \in 1..payables
    /\ payables' = payables - amount
    /\ cash' = cash - amount
    /\ UNCHANGED <<receivables, bookCost, earned>>

SettleReceivable(amount) ==
    /\ amount \in 1..receivables
    /\ receivables' = receivables - amount
    /\ cash' = cash + amount
    /\ UNCHANGED <<payables, bookCost, earned>>

\* The amounts are what the step says they are; a checker reads them off the
\* change itself, so that no bound on amounts is needed.
Next ==
    \/ Acquire(payables' - payables)
    \/ Dispose(receivables' - receivables, bookCost - bookCost')
    \/ Receive(receivables' - receivables)
    \/ SettlePayable(payables - payables')
    \/ SettleReceivable(receivables - receivables')

Spec == Init /\ [][Next]_vars

-----------------------------------------------------------------------------
\* Nothing is created or lost: what was put in and what was earned is exactly
\* what there is in cash, in claims, in debts and in holdings at cost.
BooksBalance ==
    InitialCash + earned = cash + receivables - payables + bookCost

\* Claims, debts and the cost of holdings are never negative.
NothingNegative == receivables >= 0 /\ payables >= 0 /\ bookCost >= 0

-----------------------------------------------------------------------------
\* Amounts are whole numbers of the smallest unit; cash and what has been
\* earned may be below zero.
TypeOK ==
    /\ cash \in Int /\ earned \in Int
    /\ receivables \in Int /\ payables \in Int /\ bookCost \in Int

Inv == TypeOK /\ NothingNegative /\ BooksBalance
=============================================================================
