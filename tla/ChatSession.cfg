SPECIFICATION FairSpec
CONSTANTS
  Sessions = {s1}
  Turns = {t1, t2, t3}
  Deletes = {d1}
  Remembered <- AnswerOfT2
  Earlier <- Before
  t1 = t1
  t2 = t2
  Fragile = {t2}
  Faults = {"client", "stream", "statement", "model", "memory"}
  Threshold = 1
  Recent = 1
  MinRecompact = 1
  Nil = Nil
CHECK_DEADLOCK FALSE
INVARIANTS SummaryIsPrefix CompletedIsStored
PROPERTIES SummaryNeverForgets QuestionsAnswered

