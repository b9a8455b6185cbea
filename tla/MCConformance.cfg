SPECIFICATION Spec
CONSTANTS
    Known <- Schema
    Classes = {"Order", "Coupon"}
    NewTables = {"coupons"}
    Columns = {"id", "total"}
    Vars = {"rows"}
    MaxRegions = 2
    MaxCode = 2
INVARIANTS
    VerdictExact
