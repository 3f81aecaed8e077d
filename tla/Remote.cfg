CONSTANTS
    Absent = Absent
    Tokens = {"zoneless", "utc"}
    asks = asks
    waits = waits
    lacksKey = lacksKey
    Clients = {asks, waits, lacksKey}
    KeyHolders = {asks, waits}
    Catalog <- MCCatalog
    Damaged = {4}
    Attributes <- MCAttributes
    Requests <- MCRequests
    MayAsk <- MCMayAsk
    MaxReadIds = 3
SPECIFICATION CallsSpec
INVARIANTS
    RemoteTellsTheSame
PROPERTIES
    EveryCallIsAnswered
