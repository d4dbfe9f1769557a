\* Two commands of any kind and two supervisors of one session; one killed process.
SPECIFICATION Spec
CONSTANTS
    Command = {1, 2}
    Run = {3, 4}
    None = None
    MaxName = 2
    MaxKills = 1
INVARIANTS
    ObservedStopped
    ManagedStartKeepsName
PROPERTIES
    EnsureCompletes
