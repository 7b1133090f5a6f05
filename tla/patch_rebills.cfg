SPECIFICATION Spec
CONSTANTS
    Handlers <- PatchAndIssue
    Requests = {r1, r2}
    Invoices = {i1, i2}
    Jobs = {j1}
    NoAccess = {}
    HandPayments = {}
    Intents = {}
    Tendered = {1}
    TaxPercent = 50
    Taxed <- MCTaxed
    MaxNumber = 3
    MaxCents = 6
    Repriced = {3}
    Charge <- MCCharge
    Discounts <- MCDiscounts
    Adjustment = Adjustment
    Provider = Provider
    Nobody = Nobody
    NoLine = NoLine
    NoPayment = NoPayment
    NoSession = NoSession
    Idle = Idle
    NoInvoice = NoInvoice
CHECK_DEADLOCK FALSE
INVARIANT VisitBilledOnce
