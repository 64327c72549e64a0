CONSTANTS
  SKKVOStudentModel = SKKVOStudentModel
  Nil = Nil
  Objects = {o1, o2}
  Observers = {b1, b2}
  Classes = {SKKVOStudentModel}
  Names <- MCNames
  Values = {v1, v2}
  ClassOf <- MCClassOf
  Settable <- MCSettable
  MaxCalls = 4
SPECIFICATION Spec
SYMMETRY Symmetry
INVARIANTS ClassHidden OldValuesChain
PROPERTIES OrphansStay ImplementsObserving
CHECK_DEADLOCK FALSE
