SPECIFICATION GpsSpec
INVARIANT PositionIsOfOneSentence
CHECK_DEADLOCK FALSE
