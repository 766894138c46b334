SPECIFICATION AlgorithmsSpec
CONSTANTS
  Base = 16
  Effects = {"brightness", "contrast", "flip"}
  s1 = s1
  s2 = s2
  Sources <- MCSources
  Expressions <- MCExpressions
  Meaning <- MCMeaning
  Values = {0, 1}
  MaxInputs = 3
  MaxWires = 2
SYMMETRY Symmetry
CONSTRAINT OneAtRandom
CHECK_DEADLOCK FALSE
INVARIANTS AnswersAreRight DrawingIsSound DataReadsBack PicturesAgree NumbersAreCurrent
