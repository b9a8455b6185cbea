SPECIFICATION Spec
CONSTANTS
    Catalog <- Shop
    References <- ShopNames
    Words = {"users", "orders", "items", "total"}
    MaxTables = 2
    Depth = 2
    MaxNamed = 1
    Sources = {f1, f2}
    TopK = 2
    MaxSize = 2
    MaxPerSource = 1
    MaxContext = 4
    Reserve = 2
    Label = 1
INVARIANTS
    TablesAccounted
    ClosureExact
    ArchitectSeesNoWorse
