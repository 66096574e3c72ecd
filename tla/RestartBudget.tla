---------------------------- MODULE RestartBudget ----------------------------
(***************************************************************************)
(* What a restart engine promises to the supervisor that consults it, with *)
(* time abstracted away: a number of crashes that currently count, some of *)
(* which may stop counting before the next crash is recorded, and a ruling *)
(* that allows a restart exactly when the crashes that count, the new one  *)
(* included, do not exceed the budget.  RestartEngine implements it; the   *)
(* supervisor modules are written against it.                              *)
(***************************************************************************)
EXTENDS Naturals

CONSTANT MaxRestarts  \* a natural number

VARIABLES occupancy,  \* crashes that count against the budget
          ruling      \* the last verdict's action: "none" before the first

budgetVars == <<occupancy, ruling>>

RulingFor(n) == IF n > MaxRestarts THEN "exhausted" ELSE "restart"

BudgetInit == occupancy = 0 /\ ruling = "none"

\* A crash is recorded; any number of the older ones may have aged out.
BudgetRecord == \E n \in 0..(occupancy + 1) :
                  /\ occupancy' = n
                  /\ ruling' = RulingFor(n)

\* A crash that must not count: always a restart, the budget untouched.
BudgetExempt == ruling' = "restart" /\ UNCHANGED occupancy

\* A fresh incarnation of the scope gets a fresh budget.
BudgetReset == occupancy' = 0 /\ UNCHANGED ruling

BudgetNext == BudgetRecord \/ BudgetExempt \/ BudgetReset

BudgetSpec == BudgetInit /\ [][BudgetNext]_budgetVars

=============================================================================
