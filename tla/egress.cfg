SPECIFICATION Spec
CONSTANTS
    NoAddress <- MCNoAddress
    StandardSchemes <- MCStandardSchemes
    Facts <- MCFacts
    Addresses <- MCAddresses
    Embeds <- MCEmbeds
    MappedTo <- MCMappedTo
    HostInfo <- MCHostInfo
    Hosts <- MCHosts
    Policies <- MCPolicies
    Given <- MCGiven
    Answers <- MCAnswers
    Peers <- MCPeers
INVARIANTS
    TypeOK
    MetadataNeedsNetworkRule
    DeniedNeverLetThrough
    WholeAnswerVetted
    GivesUpAfterTheLast
    NoSocketLeftOpen
    AcceptedLiteralIsPermitted
