\* The local database, whose role is named like the schema.
CONSTANTS
    Owner = "carrier_kb"
    Runtime = "carrier_kb"
    KbSchema = "carrier_kb"
    Vector = TRUE
    Plans <- MCAnyPlan
SPECIFICATION ProvisioningSpec
INVARIANTS
    WrittenIsSearchable
CHECK_DEADLOCK FALSE
