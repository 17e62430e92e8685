CONSTANT MaxIncidents = 2
SPECIFICATION Spec
INVARIANT SafeMeansUntouched
