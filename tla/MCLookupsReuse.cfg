\* Is an answer handed out again after a lookup has returned it?
CONSTANTS
  a1 = a1  prod = prod  w1 = w1  w2 = w2
  r1 = r1  r2 = r2  r3 = r3
  None = None
  Agents <- Agents1
  Environments <- Envs1
  Runs <- Runs3
  Writers <- Writers1
  MaxWrites = 1
SPECIFICATION Spec
SYMMETRY Symmetry
PROPERTIES AnswersAreNotReused
