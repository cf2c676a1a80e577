SPECIFICATION IdentitySpec
CONSTANTS
    LoginThreads = {l1, l2}
    Threshold = 2
    BaseLock = 1
    MaxLock = 3
    MaxFailures = 5
    FactorThreads = {f1, f2}
    MaxEnrol = 2
    SecretCount = 2
    MaxCounter = 2
    CodesPerUser = 1
    ProofThreads = {p1, p2, p3}
    Proofs = {j1}
    Skew = 1
    ReplayTtl = 4
    GrantThreads = {g1}
    DomainLists = {"d1"}
    Scopes = {"read"}
    MaxSecrets = 2
    a1 = a1
    a2 = a2
    s1 = s1
    SsoThreads = {t1, t2}
    Attempts = {a1, a2}
    Subjects = {s1}
    NoEmail = NoEmail
    MaxAccounts = 2
    Addresses <- MCAddresses
    Assertions <- MCAssertions
    ScimThreads = {u1, u2}
    UserNames = {"ann", "bob"}
    ExternalIds = {"x1"}
    NoExternalId = "none"
    MaxRows = 2
    MaxOperations = 2
INVARIANTS IdentityTypeOK LockoutIfSerial SecondFactorOnceIfSerial RecoveryCodesOfThisEnrolment
    ProofSingleUseIfPrompt GrantKeepsRestriction SessionOfSubject OneSessionIfSerial DeprovisionedIfSerial
CHECK_DEADLOCK FALSE
