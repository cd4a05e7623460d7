\* Two modems, two contexts, two changes and one disturbed sample.
CONSTANTS
    tty0 = tty0  tty1 = tty1
    modem0 = modem0  modem1 = modem1
    internet = internet  private = private
    home = home
    sim0 = sim0  sim1 = sim1
    Ports = {tty0, tty1}
    FirstPort = tty0
    FirstDevice = modem0
    Devices = {modem0, modem1}
    Cids = {1, 2}
    DefaultCID = 1
    APNs = {internet, private}
    FirstAPN = internet
    Operators = {home}
    SIMs = {sim0, sim1}
    None = None
    Unknown = Unknown
    MediumPolls = 2
    SlowPolls = 3
    MaxEvents = 2
    MaxFailures = 1
SPECIFICATION FairSpec
INVARIANTS
    TypeOK
    IdentityOfModem
    BoundedAge
PROPERTIES
    
    Settles
