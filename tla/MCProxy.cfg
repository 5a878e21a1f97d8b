SPECIFICATION Spec
CONSTANTS
    Alphas <- MCAlphas
    Digits <- MCDigits
    RefusedHosts <- MCRefusedHosts
    DomainLengths = {2, 3, 5}
    MaxTunnel = 2
    Servers <- MCServers
    Texts <- MCTexts
    Socks4Scheme <- MCSocks4Scheme
    Socks5Scheme <- MCSocks5Scheme
INVARIANTS
    ViewsInside
    RoundTrip
    TunnelClean
    GrantIsTaken
    ActsAsConfigured
PROPERTY
    HandshakeEnds
