\* Every table of 3 merges over two letters with words of up to 5; three tables
\* that could merge across characters with texts of several pieces; every text
\* of up to 4 characters of any class, and of up to 5 over the classes whose
\* runs interact.
CONSTANTS
  Chars <- CharsMC
  Letters <- LettersMC
  Numbers = {"1"}
  Spaces <- SpacesMC
  Newlines = {"nl"}
  Apostrophe = "'"
  Blank = " "
  Contractions <- ContractionsMC
  Texts <- TextsMC
  Bytes <- BytesMC
  Nul = "nul"
  BytesOf <- MCBytesOf
  Models <- ModelsMC
SPECIFICATION EncFairSpec
INVARIANTS MatchesRegex RoundTrip MergedInOrder NoControl
PROPERTIES RanksRise Encodes
CHECK_DEADLOCK FALSE
