\* Every cached answer of the API, one entry each.
CONSTANTS
  Views <- AllViews
  Routes <- AllRoutes
  Forgotten <- AllForgotten
  Collapsed <- AllCollapsed
  Texts <- AllTexts
  Reqs = {r1, r2}
SPECIFICATION Spec
INVARIANTS
  TypeOK
  StaleExcused
  AnswersAsAsked
PROPERTIES
  Converges
