SPECIFICATION Spec
CONSTANTS
  Requests = {r1}
  Scenes <- RetryScenes
  Users = {u1, u2}
  Phones = {p1, p2}
  Codes = {k1}
  Enrollments = {e1}
  LectureIds = {l1}
  Statuses = {"ACTIVE", "DROPPED"}
  Posts = {q1}
  Comments = {c1}
  MaxFiles = 1
  Materials = {m1}
  Orders = {o1}
  Notices = {n1}
  Schedules = {s1}
  Categories = {g1}
  Labels = {b1}
  Products = {d1}
  Horizon = 1
INVARIANT SignUpCanBeRetried
CHECK_DEADLOCK FALSE
