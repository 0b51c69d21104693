SPECIFICATION Spec
CONSTANTS
    Decoded <- MCDecoded
    LowerOf <- MCLowerOf
    Dotted <- MCDotted
    IPv4s <- MCIPv4s
    IPv6s <- MCIPv6s
    PortOf <- MCPortOf
    Rank <- MCRank
    DefaultPorts <- MCDefaultPorts
    DangerousPorts <- MCDangerousPorts
    StandardSchemes <- MCStandardSchemes
    NoAddress <- MCNoAddress
    Addresses <- MCAddresses
    Facts <- MCFacts
    Embeds <- MCEmbeds
    MappedTo <- MCMappedTo
    HostInfo <- MCHostInfo
    Texts <- MCFileTexts
    Calls <- MCLocalCalls
    Components <- MCComponents
    Overrides <- MCOverrides
    Netlocs <- MCNetlocs
    Params <- MCParams
    References <- MCReferences
    Networks <- MCNetworks
    MaxSteps = 2
INVARIANT StringNamesTheHost
