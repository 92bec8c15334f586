SPECIFICATION Spec
CONSTANTS
    w1 = w1
    w2 = w2
    w3 = w3
    c1 = c1
    None = None
    Wallets = {w1, w2}
    Submissions = {c1}
    Kinds = {"create", "import", "open"}
    MaxGeneration = 1
PROPERTY SuspensionEnds
CHECK_DEADLOCK FALSE
