SPECIFICATION Spec
CONSTANTS
    Catalog <- Shadowed
    References <- ShopNames
    Words = {"users", "orders", "items", "total"}
    MaxTables = 2
    Depth = 1
    MaxNamed = 2
    Sources = {f1, f2}
    TopK = 2
    MaxSize = 2
    MaxPerSource = 1
    MaxContext = 4
    Reserve = 2
    Label = 1
INVARIANTS
    NoneOmittedSilently
