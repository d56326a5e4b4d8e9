SPECIFICATION Spec
CONSTANTS
    Procs = {p1, p2}
    hiddenYaml = hiddenYaml
    projectJson = projectJson
    LoadOrder <- MCLoadOrder
    CommandOrder <- MCCommandOrder
    Yaml <- MCYaml
    ProjectConfig = projectJson
    Values = {0, 3}
    Contents <- MCContents
    MaxCommands = 3
    Absent = Absent
    Torn = Torn
    Garbled = Garbled
    Null = Null
    Undefined = Undefined
    Failed = Failed
    Nobody = Nobody
INVARIANTS SettingsKept InitializedWhole
PROPERTY RunsAsConfigured
CHECK_DEADLOCK FALSE
