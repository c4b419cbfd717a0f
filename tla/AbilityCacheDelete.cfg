SPECIFICATION Spec
CONSTANTS
    r1 = r1
    r2 = r2
    r3 = r3
    r4 = r4
    r5 = r5
    t1 = t1
    t2 = t2
    b1 = b1
    b2 = b2
    n1 = n1
    n2 = n2
    Records <- MCRecords
    Tokens = {t1, t2}
    Bundles = {b1, b2}
    Names = {n1, n2}
    TokenOf <- MCTokenOf
    BundleOf <- MCBundleOf
    NameOf <- MCNameOf
    NoRecord = NoRecord
    NoBundle = NoBundle
    devCapacity = 3
    procCapacity = 2
INVARIANT
    DeletedBundleIsGone
