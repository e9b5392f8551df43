CONSTANTS
    i1 = i1  i2 = i2
    pkgA = pkgA  pkgB = pkgB  pkgC = pkgC
    url1 = url1  url2 = url2  tok1 = tok1
    NoArg = NoArg
    Client = "codex"
    Invocations = {i1}
    Packages = {pkgA, pkgB}
    Endpoints = {url1}
    Tokens = {tok1}
    MaxFaults = 1
    MaxEdits = 1
SPECIFICATION Spec
PROPERTIES HostEditsKept
