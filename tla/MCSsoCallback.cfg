SPECIFICATION SsoSpec
CONSTANTS
    a1 = a1
    a2 = a2
    s1 = s1
    SsoThreads = {t1, t2}
    Attempts = {a1, a2}
    Subjects = {s1}
    NoEmail = NoEmail
    MaxAccounts = 2
    Addresses <- MCAddresses
    Assertions <- MCAssertions
INVARIANT OidcLoginCompletes
CHECK_DEADLOCK FALSE
