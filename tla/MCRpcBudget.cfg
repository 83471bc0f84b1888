SPECIFICATION Spec
CONSTANTS
    p1 = p1
    p2 = p2
    Proc = {p1, p2}
    Method = {"getHealth", "batch", "sendTransaction"}
    Cost <- MCCost
    Sends = {"sendTransaction"}
    Gap <- MCGap
    SendGap = 2
    Daily = 3
    Monthly = 4
    MaxLag = 1
    End = 4
    DayOf <- MCDayOf
    MonthOf <- MCMonthOf
SYMMETRY MCSymmetry
INVARIANTS
    AllocationHeld
    RowIsLedger
PROPERTIES
    SlotsKept
CHECK_DEADLOCK FALSE
