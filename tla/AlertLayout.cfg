SPECIFICATION Spec
INVARIANT LayoutsMirror
CHECK_DEADLOCK FALSE
