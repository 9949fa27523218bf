SPECIFICATION Spec
CONSTANTS
  Requests = {r1, r2}
  Scenes <- MCScenes
  Users = {u1, u2, u3}
  Phones = {p1, p2}
  Codes = {k1, k2}
  Enrollments = {e1, e2}
  LectureIds = {l1, l2}
  Statuses = {"ACTIVE", "DROPPED"}
  Posts = {q1}
  Comments = {c1, c2}
  MaxFiles = 3
  Materials = {m1}
  Orders = {o1}
  Notices = {n1}
  Schedules = {s1}
  Categories = {g1, g2}
  Labels = {b1, b2}
  Products = {d1}
  Horizon = 1
SYMMETRY MCSymmetry
INVARIANTS
  TypeOK
  CodesSpent
  ExpelledNotAdmitted
  NoMissedLink
  PhonesInStep
  DroppedIffDeleted
  
  
  EditsKeepRowsFit
PROPERTIES
  ActivatedStays
CHECK_DEADLOCK FALSE
