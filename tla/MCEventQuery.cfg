SPECIFICATION HostSpec
CONSTANTS
    Key = {"a.json", "sub/b"}
    Caller = {r1, r2}
    Temp <- MCTemp
    Dir = {"", "sub"}
    Base = ""
    Above <- MCAbove
    Within <- MCWithin
    Home <- MCHome
    Prefix = {"", "sub", "su"}
    Begins <- MCBegins
    Names <- MCNames
    Page = 1
    Last = 9
    Namespace <- MCNamespace
    Id <- MCId
    Batches <- MCBatches
    Text = {"x", "y", "blank"}
    Blank = "blank"
    Score <- MCScore
    Loader = {r1, r2}
    Request = {r1, r2}
    Kid = {"k1", "k2"}
    Ttl = 2
    Delay = 1
    MaxTime = 4
    Modules = 1
    Collection <- MCCollection
    Doc = {1, 2, 3, 4}
    DocId <- MCDocId
    Body <- MCBody
    Puts <- MCPuts
    Filter <- MCFilter
    Query <- MCQuery
    MaxInt = 100
    MaxWrites = 3
    Org = {"acme"}
    App = {"crm"}
    Type = {"opened", "closed"}
    Unset = "unset"
    MaxEvents = 2
SYMMETRY MCSymmetry
INVARIANT AppendedEventsAreFound
