CONSTANT Torrent = {t1}
CONSTANT Actor <- MCActor
CONSTANT NoRow = NoRow
CONSTANT MaxRequests = 2
CONSTANT MaxFaults = 2
SPECIFICATION FairSpec
INVARIANT OkIsTrue
INVARIANT HandshakeSuffices
INVARIANT LoginAsStored
PROPERTY RequestsEnd
CHECK_DEADLOCK FALSE
