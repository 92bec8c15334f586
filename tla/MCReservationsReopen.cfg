SPECIFICATION Spec
CONSTANTS
    d1 = d1
    d2 = d2
    a1 = a1
    a2 = a2
    Deploys = {d1, d2}
    Accounts = {a1}
    AccountOf <- SharedAccount
    Amount <- MCAmount
    Funds <- ScarceFunds
INVARIANT NeverRestoresDoomed
