SPECIFICATION Spec
CONSTANTS
    old = old  same = same  new = new  k1 = k1  k2 = k2  Nil = Nil
    Authorities = {old, same, new}
    Keys = {k1, k2}
    KeyOf <- MCKeyOf
    EndOf <- MCEndOf
    FirstAuthority = old
    CertFiles <- MCCertFiles
    Expirations <- MCExpirations
    CertTTL = 3
    Backdate = 1
    MinDuration = 2
    FileRefreshDuration = 1
    MaxWrites = 3
    MaxStops = 2
    MaxTime = 6
PROPERTY
    FreshAuthority
CHECK_DEADLOCK FALSE
