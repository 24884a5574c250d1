CONSTANTS
    nocontent = nocontent
    unknown = unknown
SPECIFICATION ProgressSpec
PROPERTIES SlotsAreReleased RegionsAreWorkedOff RequestsEnd
CHECK_DEADLOCK FALSE
