\* Three children: one can fail, one can be pending and one can have ended.
CONSTANTS
  Child = {c1, c2, c3}
SPECIFICATION Spec
INVARIANTS
  TypeOK
  NoChildLeftBehind
  AnswerIsTheChildrens
PROPERTIES
  ImplementsCommand
  EventuallyAnswers
