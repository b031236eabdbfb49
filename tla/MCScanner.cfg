\* Two scans of three torrents and one cache.
SPECIFICATION ScanSpec
CONSTANTS
    Torrents = {x1, x2, x3}
    NoTorrent = NoTorrent
    Scans = {s1, s2}
    MissLimit = 1
    BatchSize = 2
    MaxScans = 2
SYMMETRY ScannerSymmetry
INVARIANTS ResultIsCached ScanIsThorough
CHECK_DEADLOCK FALSE
