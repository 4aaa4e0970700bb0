SPECIFICATION Spec
CONSTANTS
  Channels = {c1, c2}
  Messages = {m1, m2}
INVARIANTS TypeOK ServedBeforeNextInstruction StatusTruthful
PROPERTY AnswersAcceptedMail
