SPECIFICATION Spec
CONSTANTS
  Calls <- MCCalls
INVARIANTS
  
  
  NoRace
