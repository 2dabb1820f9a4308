CONSTANTS
    i1 = i1
    i2 = i2
    s1 = s1
    s2 = s2
    Ingresses = {i1, i2}
    Secrets = {s1, s2}
    IngressValues <- UpToTwoSecrets
    Contents = {"v1", "v2"}
    Malformed = {"bad"}
    MaxChanges = 4
    Absent = Absent
SPECIFICATION Spec
INVARIANTS TypeOK AppliedIsCached MapIsComplete CertificatesCurrentIfSerial
CHECK_DEADLOCK FALSE
