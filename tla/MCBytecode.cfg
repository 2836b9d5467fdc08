\* Sources of up to three lines, assembled, cut or not, and disassembled.
CONSTANTS
  Base = 6
  Wild <- MCWild
  NodeUp <- MCUp
  NodeNext <- MCNext
  NodePrevious <- MCPrevious
  Number <- MCNumber
  Decimal <- MCDecimal
  Absent = Absent
  Line <- MCLine
  MaxLines = 3
  Cut = TRUE
SPECIFICATION Spec
CHECK_DEADLOCK FALSE
INVARIANTS
  BytecodeTypeOK
  ReadAsWritten
  PrefixRead
  Reassembles
PROPERTY Consumes
