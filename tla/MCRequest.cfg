CONSTANTS
    Hosts = {"a", "b"}
    MaxHeaders = 3
SPECIFICATION Spec
INVARIANTS HeadAsAsked HostIsThere
