SPECIFICATION Spec
CONSTANTS
    Handlers <- Everything
    Requests = {r1}
    Invoices = {i1, i2}
    Jobs = {j1, j2}
    NoAccess = {j2}
    HandPayments = {h1}
    Intents = {c1}
    Tendered = {1, 3}
    TaxPercent = 50
    Taxed <- MCTaxed
    MaxNumber = 3
    MaxCents = 6
    Repriced = {3}
    Charge <- MCCharge
    Discounts <- MCDiscounts
    Adjustment = Adjustment
    Provider = Provider
    Nobody = Nobody
    NoLine = NoLine
    NoPayment = NoPayment
    NoSession = NoSession
    Idle = Idle
    NoInvoice = NoInvoice
CHECK_DEADLOCK FALSE
SYMMETRY Interchangeable
INVARIANTS
    TypeOK
    LinesMatchSnapshot
    IssuedNeverDeleted
PROPERTIES
    KeepsTheBook
