SPECIFICATION SettingsSpec

CONSTANTS
    ChannelName = {n1, n2}
    Edits = 2
    Calls = 2

PROPERTIES
    SavedIsReadable

CHECK_DEADLOCK FALSE
