SPECIFICATION PartsSpec
PROPERTIES FiltersGoOn LeavesAtStart
CHECK_DEADLOCK FALSE
