SPECIFICATION FairSpec
CONSTANTS
  s1 = s1
  s2 = s2
  t1 = t1
  t2 = t2
  t3 = t3
  Seeds = {s1, s2}
  Tasks = {t1, t2, t3}
  ListedBy <- MCListedBy
  EnumWorkers = {e1, e2}
  EnqWorkers = {q1, q2}
  Capacity = 1
INVARIANTS
  CountsAgree
  NothingForgotten
PROPERTY EnqueueEnds
CHECK_DEADLOCK FALSE
