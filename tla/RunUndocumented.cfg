CONSTANT Radix = 4
SPECIFICATION InstructionSpec
PROPERTY UndocumentedContinue
