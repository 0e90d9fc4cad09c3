\* Every operation of the specification's table that the decoder accepts.
CONSTANT EncOps = {"add", "sub", "xor", "or", "and", "sll", "sra", "slt", "addi", "xori", "ori", "andi", "slli", "lw", "jalr", "sw", "beq", "bne", "blt", "bge", "jal", "inw", "outb", "finw", "flw", "fsw"}
SPECIFICATION Spec
INVARIANT DecodeInvertsEncode
