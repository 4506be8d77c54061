SPECIFICATION Spec
INVARIANT
    SilentIsUnavailable
