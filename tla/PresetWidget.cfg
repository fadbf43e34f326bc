CONSTANTS
    Instances = {a, b}
    MaxEdits = 1
    torn = torn
    void = void
    Presets = {0, 1, torn, void}
    empty = empty
    partial = partial
    mixed = mixed
    nobody = nobody
SPECIFICATION WidgetSpec
INVARIANTS
    SavedIsThere
    EmptyIsLeftBehind
    

SYMMETRY Symmetry
