\* Of each kind of scheme, number, text and file one; four settings in the
\* environment are a URL, a bundle and a key pair, and a flag overrides any.
CONSTANTS
    Unset = Unset
    Garbage = Garbage
    Schemes = {"https", "mqtts", "tcp", "unix"}
    Numbers = {0, 1, 15, 257}
    Texts = {"", "node"}
    Levels = {"info", "error"}
    Certificates = {"cert.pem"}
    Keys = {"key.pem"}
    MaxExports = 4
    MaxFlags = 1
SPECIFICATION Spec
INVARIANTS TypeOK RefusesTheFaulty ConnectsAsAsked ExposureIsWarned
\* A start ends, refused or with a client that connects.
CHECK_DEADLOCK FALSE
