SPECIFICATION Spec
CONSTANTS
    Start <- MCStart
    Resolutions <- MCResolutions
    Previews <- MCPreviews
    Dpis = {1}
    Types = {"phone", "tv"}
    DeviceType = "phone"
    LaunchDpis = {0, 3}
    DefaultDpi = 2
    MaxCommands = 3
CHECK_DEADLOCK FALSE
INVARIANTS
    WindowFollows
    SizesAgree
    ShapeMatches
    DensityKept
