\* Texts with two brackets and one operator, trees three nodes deep, strings of three characters, every integer of six bits,
\* chains of operators on six bits with a library of three.
SPECIFICATION Spec
CONSTANTS
  Modes = {"source", "output", "string", "integer", "operator"}
  SourceLexemes <- MCLexemes
  EmittedOps <- MCOps
  Units <- MCUnits
  Integers55 <- MCIntegers
  Constructs <- MCConstructs
  Operators55 <- MCOperators55
  Operands <- MCOperands
  Width = 6
  Mantissa = 3
  BitWidth = 3
  MaxBrackets = 2
  MaxOperators = 1
  MaxNodes = 3
  MaxPoints = 3
INVARIANTS TypeOK SameTreeRead SameTreePrinted NothingRefused NothingSlipsThrough TextLoads ErrorNamed SameLiteral SameValue LikeBitLibrary
CHECK_DEADLOCK FALSE
