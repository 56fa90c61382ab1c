SPECIFICATION Spec
CONSTANTS
    c1 = c1
    c2 = c2
    r1 = r1
    a1 = a1
    k1 = k1
    Addresses <- OneAddress
    Calls <- TwoCalls
    Rows <- OneRow
    Companies <- OneCompany
    AddressOf <- RowAddress
    CompanyOf <- RowCompany
    SentAt <- RowOrder
    Signals <- MailSignals
    Manual = TRUE
    MaxFaults = 1
SYMMETRY Symmetric
INVARIANT FirstIsReported
INVARIANT OptOutRecorded
