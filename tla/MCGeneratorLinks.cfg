SPECIFICATION Spec
INVARIANT HierarchyLinksNeverInline
CHECK_DEADLOCK FALSE
