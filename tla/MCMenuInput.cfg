\* Choices of two characters, one word to each prompt of choice 1, anything elsewhere.
SPECIFICATION Spec
CONSTANTS
  MenuLines <- MCMenuLines
  WordLines <- MCWordLines
  NumberLines <- MCNumberLines
  LooseLines <- MCLooseLines
INVARIANTS TypeOK TakenAsTyped
CHECK_DEADLOCK FALSE
