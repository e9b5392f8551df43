CONSTANTS
    i1 = i1  i2 = i2
    pkgA = pkgA  pkgB = pkgB  pkgC = pkgC
    url1 = url1  url2 = url2  tok1 = tok1
    NoArg = NoArg
    Client = "opencode"
    Invocations = {i1, i2}
    Packages = {pkgA, pkgB, pkgC}
    Endpoints = {url1}
    Tokens = {tok1}
    MaxFaults = 1
    MaxEdits = 0
SPECIFICATION Spec
INVARIANTS InstallInv
PROPERTIES ImplementsAtomicInstall
