\* Seven environments, three kinds of Kea server, any three changes or crashes.
CONSTANTS
    Envs <- SomeEnvs
    Needs <- SomeNeeds
    FileSets <- SomeFiles
    Secrets <- SomeSecrets
    MaxRetries = 5
    MaxChanges = 3
SPECIFICATION Spec
INVARIANTS TypeOK AuthExclusive NoDowngrade
PROPERTY EventuallyRuns
CHECK_DEADLOCK FALSE
