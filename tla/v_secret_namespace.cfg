SPECIFICATION Spec
CONSTANTS
    u1 = u1
    u2 = u2
    Users <- MCUsers
    Readers <- OneUser
    Objects <- MCObjects
    Grantable <- MCGrantable
    Granted <- MCGranted
    ReviewsFail = TRUE
    Lookbacks = {0, 14, 30}
    EnabledTypes <- MCTypes
    SecretNamespaces <- Documented
    MaxCrashes = 1
    Activities = {"start"}
CHECK_DEADLOCK FALSE
INVARIANT SecretsWhereDocumented
