CONSTANTS
    PortPool <- MCPortPool
    Ephemeral <- MCEphemeral
    Ranges <- MCRanges
    Proxies = {"none", "socks5", "https"}
    SslAvailable = TRUE
    MaxCalls = 3
    CurrentThread <- MCCurrentUnwrapped
    ThreadArgs <- MCThreadArgs
    FactoryArgs <- MCFactoryArgs

SPECIFICATION Spec

INVARIANT TypeOK
INVARIANT NoLeak
INVARIANT BindSocketFindsFirstFree
