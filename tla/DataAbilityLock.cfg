\* Three loads of one data ability, of which one times out.
SPECIFICATION Spec
CONSTANTS
    d1 = d1  d2 = d2  d3 = d3  A = A  page = page  data = data  system = system
    Names = {A}
    Records = {d1, d2, d3}
    NameOf <- MCNameOf
    NoRecord = NoRecord
    Callers = {page, system}
    KindOf <- MCKindOf
    Binding = {page}
    Worker = Worker
    Resident = {A}
    Crashes = TRUE
    MaxHolds = 1
SYMMETRY Symmetry
INVARIANTS NamesOnce
CHECK_DEADLOCK FALSE
