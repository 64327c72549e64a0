------------------------------- MODULE MCSKKVO -------------------------------
(* Two objects of the class SKKVOStudentModel, for TLC. *)
EXTENDS SKKVO

CONSTANT SKKVOStudentModel

MCClassOf == [o \in Objects |-> SKKVOStudentModel]
\* Setters for two names; a third name has none
MCSettable == [c \in Classes |-> {"stdName", "stdAge"}]
MCNames == {"stdName", "stdAge", "noSetter"}

Symmetry == Permutations(Objects) \cup Permutations(Observers) \cup Permutations(Values)
==============================================================================
