\* Does a deprovision whose calls succeed remove the resource?
SPECIFICATION Spec
CONSTANTS
    Processes = {p1}
    Databases = {d1, d2}
    Clusters = {c1}
    Statics = {s1}
    Enabled = {"generate", "apply", "look", "deprovision"}
    Apps = {a1, a2, a3}
    Names = {n1, n2, n3}
    None = None
    MaxCommands = 3
    MaxLooks = 0
    MaxFaults = 1
    MaxCrashes = 1
PROPERTIES DeprovisionRemoves
CHECK_DEADLOCK FALSE
