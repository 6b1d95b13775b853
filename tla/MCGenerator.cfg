SPECIFICATION Spec
INVARIANT TypeOK CallsResolve UniqueDefinitions KlassIdConvention
\* main ends with sys.exit(0) after the last table: the program stops.
CHECK_DEADLOCK FALSE
