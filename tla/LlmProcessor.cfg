SPECIFICATION Spec
CONSTANTS
    None = None
    Clients <- MCClients
    Shapes <- MCShapes
    MaxCalls = 2
    MaxLost = 1
INVARIANTS CallsFaithful SessionsSound TurnsCut
