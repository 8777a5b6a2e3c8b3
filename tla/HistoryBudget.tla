--------------------------- MODULE HistoryBudget ---------------------------
(***************************************************************************)
(* The connection history's disk budget (bridge history/budget.rs): the main *)
(* file's page cap for a total of so many bytes, chosen so that the file, a *)
(* full rollback journal of it and the settings file fit, and the mark that *)
(* eviction starts at.                                                      *)
(***************************************************************************)
EXTENDS Integers

CONSTANT Totals    \* bytes, around the smallest budget that is accepted

ASSUME TotalsAssumption == Totals \subseteq Nat

PAGE == 4096
JOURNAL_HEADER == 4096
JOURNAL_RECORD == 4 + PAGE + 4
SETTINGS_PEAK_RESERVE_BYTES == 2 * 4096
ROWS_PER_TXN == 32
GROWTH_PAGES_PER_ROW == 8
BUDGET_MIB == {16, 64, 256}

Mib(n) == n * 1048576
DivCeil(a, b) == (a + b - 1) \div b

\* Mutant: half for the file, whatever its journal needs
HalfForTheFile(total) == (total \div 2) \div PAGE

\* Budget::new: the page cap
MaxPageCount(total) ==
  LET half == (total \div 2) \div PAGE
      withFullJournal == (total - (SETTINGS_PEAK_RESERVE_BYTES + JOURNAL_HEADER)) \div (PAGE + JOURNAL_RECORD)
  IN  IF half <= withFullJournal THEN half ELSE withFullJournal
LedgerPages(total) == DivCeil(total \div 50, PAGE)
BudgetOk(total) ==
  /\ total >= SETTINGS_PEAK_RESERVE_BYTES + JOURNAL_HEADER
  /\ MaxPageCount(total) > LedgerPages(total) + ROWS_PER_TXN * GROWTH_PAGES_PER_ROW

\* journal_limit_bytes: every page of the main file journalled once, under one header
JournalLimitBytes(total) == JOURNAL_HEADER + MaxPageCount(total) * JOURNAL_RECORD

\* high_water_pages, with its saturating subtractions
HighWaterPages(total) ==
  LET left == MaxPageCount(total) - LedgerPages(total) - ROWS_PER_TXN * GROWTH_PAGES_PER_ROW
  IN  IF left < 0 THEN 0 ELSE left

WorstCaseBytes(total) == MaxPageCount(total) * PAGE + JournalLimitBytes(total) + SETTINGS_PEAK_RESERVE_BYTES

-----------------------------------------------------------------------------
(* The budget in use *)

VARIABLE budgetBytes

\* The settings as they are read, or any other total that Budget::new is given
BudgetInit == budgetBytes \in {Mib(n) : n \in BUDGET_MIB} \cup Totals

\* The user chooses another
BudgetNext == \E n \in BUDGET_MIB : budgetBytes' = Mib(n)

BudgetSpec == BudgetInit /\ [][BudgetNext]_budgetBytes

-----------------------------------------------------------------------------
\* "main + journal + settings <= B always" (budget.rs), the main file alone takes at most
\* half, and below the mark there is room for the ledger and a batch of rows.
BudgetKept(total) ==
  BudgetOk(total) =>
    /\ WorstCaseBytes(total) <= total
    /\ 2 * MaxPageCount(total) * PAGE <= total
    /\ HighWaterPages(total) > 0
    /\ HighWaterPages(total) + LedgerPages(total) + ROWS_PER_TXN * GROWTH_PAGES_PER_ROW
         <= MaxPageCount(total)

\* So it is for the budget in use, and every one the user may choose is accepted.
BudgetsKept == BudgetKept(budgetBytes) /\ \A n \in BUDGET_MIB : BudgetOk(Mib(n))
=============================================================================
