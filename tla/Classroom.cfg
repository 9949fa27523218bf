SPECIFICATION Spec
CONSTANTS
  Requests = {r1, r2}
  Scenes <- MCScenes
  Students = {s1, s2, s3}
  LectureStatuses = {"IN_PROGRESS", "COMPLETED"}
  QuestionIds = {1, 2, 3}
  Papers <- MCPapers
  FirstPapers <- MCFirstPapers
  Cutoffs = {1}
  Options = {"A", "B"}
  Categories = {c1, c2}
  Assignments = {a1, a2}
  Names = {"n1", "n2"}
  PresetCounts = {1, 2}
  Bulks <- MCBulks
  Days = {"d1"}
  Marks = {"LATE", "ABSENT"}
SYMMETRY MCSymmetry
INVARIANTS
  TypeOK
  AnswersComeWithGrade
  ClinicsFollowGrades
  ReportsAgree
  ReportUrlHasFile
  ResultsAreOfPresets
  AttendanceAfterOpening
PROPERTIES
  GradedExamKept
  ReportShowsList
CHECK_DEADLOCK FALSE
