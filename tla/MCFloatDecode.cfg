\* Every funct3 and funct7 of the float opcode.
SPECIFICATION Spec
INVARIANT DecodeNeverPanics
