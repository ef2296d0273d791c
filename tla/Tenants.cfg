SPECIFICATION FairSpec
CONSTANTS
    Partitions = {"p1"}
    MaxCommands = 2
    NoCommand = none
    t1 = t1
    t2 = t2
    acme = acme
    beta = beta
    Threads = {t1, t2}
    Tenants = {acme, beta}
    TenantOf <- MCTenantOf
    Conns = {"c1", "c2"}
    Unset = unset
    MaxStatements = 2
INVARIANTS
    TypeOK
    SchemaIsRevision
    TablesSecured
    OnlyRlsFails
    OwnRowsOnly
PROPERTIES
    SessionsEnd
