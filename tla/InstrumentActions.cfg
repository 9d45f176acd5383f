CONSTANTS
    Macs = {m1, m2, m3}
    Names = {n1, n2}
    InfoTexts = {t1}
    NoMac = NoMac
    NoName = NoName
    MaxDevices = 2
    MaxLines = 5
    IeBytes = {0, 1}
    MaxIeBytes = 6
    MaxResults = 2
    MaxNetworks = 1
    Cap = 6
    Lengths = {2, 3, 6}
    MaxReports = 3
SYMMETRY Symmetry
SPECIFICATION Spec
INVARIANTS
    TypeOK
    BluetoothListed
    WifiListed
    PositionFound
