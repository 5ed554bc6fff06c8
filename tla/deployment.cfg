\* Two messages, the first one poison, two stops, two registry calls.
CONSTANTS
    Versions = {v1, v2}
    NoPointer = NoPointer
    MaxWrites = 2
    AlertIds = {1, 2}
    Payloads = {alert}
    Analysts = {analyst}
    NoAlert = NoAlert
    Null = Null
    MaxMessages = 2
    Poison = {1}
    MaxStops = 2
    MaxDecisions = 1
    None = None
    Pilot = Pilot
SPECIFICATION Spec
INVARIANTS
    OnlyCutOffPublishSpoils
    LossBounded
    DuplicatesOnlyByCrash
PROPERTIES
    DecisionsUndoneOnlyByCrash
    NoMessageBlocks
