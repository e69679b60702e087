SPECIFICATION FairSpec
CONSTANTS
    MaxRequests = 2
PROPERTIES
    EveryRequestSettles
