CONSTANTS
    Hosts = {a, b}
    Ports = {81}
    Custom = {"ProxyAuthorization", "Via"}
    MaxProxies = 2
SPECIFICATION Spec
INVARIANTS EndToEnd FirstHop NothingInTheClear Authenticated
CONSTRAINT OneOrPlain
SYMMETRY Symmetry
