SPECIFICATION Spec
CONSTANTS
    Procs = {p1}
    hiddenYaml = hiddenYaml
    projectJson = projectJson
    LoadOrder <- MCLoadOrder
    CommandOrder <- MCCommandOrder
    Yaml <- MCYaml
    ProjectConfig = projectJson
    Values = {0, 3}
    Contents <- MCContents
    MaxCommands = 2
    Absent = Absent
    Torn = Torn
    Garbled = Garbled
    Null = Null
    Undefined = Undefined
    Failed = Failed
    Nobody = Nobody
INVARIANT UserConfigSpared
CHECK_DEADLOCK FALSE
