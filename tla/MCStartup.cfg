SPECIFICATION Spec
CONSTANTS
    Programs = {"server", "store", "sensors"}
    Items = {"Cheese"}
INVARIANT TypeOK
PROPERTIES SettingsAreFound OnceOpenStaysOpen
