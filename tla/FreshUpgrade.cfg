SPECIFICATION MigrateSpec
CONSTANTS
    Partitions <- OnePartition
    MaxCommands = 3
    NoCommand = none
INVARIANTS
    UpgradeSucceeds
