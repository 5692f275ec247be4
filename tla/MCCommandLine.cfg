CONSTANTS
  Words = {"word"}
  Arguments = {"word", "", "--", "-", "--=text", "-o", "-C", "-i", "-q", "-h", "-x"}
  MaxArgs = 4
SPECIFICATION Spec
INVARIANTS
  TypeOK
  CommandAsWritten
  OptionsBeforeCommand
  RunsWhenItShould
