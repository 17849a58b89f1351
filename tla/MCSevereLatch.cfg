SPECIFICATION VenueSpec
CONSTANTS
    MaxMismatches = 1
    MaxRestarts = 0
    Operators = FALSE
PROPERTIES SevereNeedsOperator
