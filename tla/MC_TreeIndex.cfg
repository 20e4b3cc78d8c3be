SPECIFICATION Spec
INVARIANT PathsMatchTree
INVARIANT DriverAgreesWithLibrary
