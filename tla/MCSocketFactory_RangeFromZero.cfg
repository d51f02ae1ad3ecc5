CONSTANTS
    PortPool <- MCPortPool
    Ephemeral <- MCEphemeral
    Ranges <- MCRangesFromZero
    Proxies = {"none", "socks5", "https"}
    SslAvailable = TRUE
    MaxCalls = 3
    CurrentThread <- MCCurrentWrapped
    ThreadArgs <- MCThreadArgs
    FactoryArgs <- MCFactoryGiven

SPECIFICATION Spec

INVARIANT BindSocketFindsFirstFree
