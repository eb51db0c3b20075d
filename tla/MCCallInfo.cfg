SPECIFICATION Spec
CONSTANTS
  Calls = {"c1", "c2"}
  NoCall = NoCall
  Messages <- MCMessages
  Fixed = 10
INVARIANTS
  SizeIsStable
  InfoIsOfLastMessage
  FieldsAreApart
  SizeIsEnough
