\* Three readings, two of which can age past the retention at different
\* times, and a clean-up every second round: rows expire, clean-ups and
\* commits fail, and power is lost between any two transactions.
SPECIFICATION Spec
CONSTANTS
  CleanupEvery = 2
  Retention = 0
  MaxReadings = 3
  MaxClock = 2
  MaxKwh = 1
INVARIANTS TypeOK BillingBacked
PROPERTIES BillingNeverRegresses NoSilentLoss ImplementsTable
