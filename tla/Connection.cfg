SPECIFICATION Spec
CONSTANTS
    Devices = {a, b}
    MaxFd = 4
    MaxCalls = 3
SYMMETRY Alike
INVARIANTS
    ConnectionInv
    OpenIsOwn
    SocketsAccounted
