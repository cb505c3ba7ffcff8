SPECIFICATION DevicesSpec
CONSTANTS
    MaxCoordinate = 2
    Callbacks = {onPosition, onOther}
    Bundles = {watch, phone}
    None = None
SYMMETRY CallbacksOrBundles
INVARIANTS
    WrongIsNoticed
    NoCallAfterUnregister
