\* slti, listed in the specification's I table with funct3 = 2.
CONSTANT EncOps = {"slti"}
SPECIFICATION Spec
INVARIANT DecodeInvertsEncode
