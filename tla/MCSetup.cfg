SPECIFICATION Spec
CONSTANTS
    v = v
    Factories = {1}
    Values = {v}
    Containers = 2
    Registrations = 4
INVARIANTS
    AcceptedIsUsed
    DependenciesReady
