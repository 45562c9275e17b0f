SPECIFICATION MCSpec
CONSTANTS
  Owners = {o1}
  Items = {m1, m2, m3}
  Sources = {h1, h2}
  Asked = {"active", "contradicted", "superseded", "retracted"}
  None = None
  Turns = {t1, t2}
  Texts = {d1, d2}
  Permitted = {t1, d1}
  Foreign = {t2, d2}
  Timely = {t1, t2, d1, d2}
  Sourced = {d1, d2}
  Restricted = {t1}
  Domains = {g1, g2}
  Classes = {k1}
  Entities = {n1}
  Relationships = {r1}
  RelationScopes = {z1, z2}
  Unset = Unset
  Scores = {0, 40, 95}
  Undecided = Undecided
SYMMETRY Symmetry
CHECK_DEADLOCK FALSE
INVARIANTS
  LinksAgree
  StatusesAreSupported
  ReplacedIsNeverCurrent
  EventsTellStatus
  RecentIsKept
  AnswersAreContained
  AnswersTell
  FiltersAgree
  ScoresNeverHurt
