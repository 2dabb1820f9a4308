CONSTANTS
    i1 = i1
    i2 = i2
    s1 = s1
    s2 = s2
    Ingresses = {i1}
    Secrets = {s1, s2}
    IngressValues <- UpToTwoSecrets
    Contents = {"v1", "v2"}
    Malformed = {}
    MaxChanges = 4
    Absent = Absent
SPECIFICATION Spec
INVARIANTS CertificatesCurrent
CHECK_DEADLOCK FALSE
