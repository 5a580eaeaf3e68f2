SPECIFICATION Spec
CONSTANTS
    Resolve <- KnownNames
    Requests <- NamedRequests
    ClientIps <- OneIp
    Confs <- NoConfs
    MaxLength = 1
    MaxUnits = 0
INVARIANT HostIsParsed
