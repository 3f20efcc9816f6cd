\* Every mix of key material and classification; failures, and up to two altered fields.
SPECIFICATION FairSpec
CONSTANTS
    MaxAlterations = 2
INVARIANTS
    TypeOK
    AuthenticatedAgreement
    KeyAgreement
    SameKeySameLevel
PROPERTIES
    HandshakeEnds
    HonestHandshakeSucceeds
\* The handshake ends; two sides may also wait for each other after an alteration.
CHECK_DEADLOCK FALSE
