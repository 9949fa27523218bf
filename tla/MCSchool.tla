------------------------------ MODULE MCSchool ------------------------------
(* Instances of School for TLC. *)
EXTENDS School
Scene(start, n, ops) == [start |-> start, calls |-> n, ops |-> ops]
MCScenes ==
    {Scene("verified", 3, {"ASSISTANT", "STUDENT"}),
     Scene("verified", 4, {"ASSISTANT", "createCode"}),
     Scene("verified", 4, {"ASSISTANT", "approve", "reject", "expire"}),
     Scene("staffed", 3, {"ASSISTANT", "createCode", "updateAssistant"}),
     Scene("staffed", 3, {"approve", "updateAssistant", "reject", "expire"}),
     Scene("verified", 3, {"ASSISTANT", "INSTRUCTOR", "withdraw", "signIn"}),
     Scene("empty", 5, {"invite", "activate", "verifyEmail", "signIn", "signOut"}),
     Scene("verified", 3, {"STUDENT", "createEnrollment", "createLecture"}),
     Scene("verified", 4, {"PARENT", "registerChild", "createEnrollment"}),
     Scene("class", 3, {"updateEnrollment", "studentProfile"}),
     Scene("class", 2, {"updateEnrollment", "studentProfile", "createEnrollment"}),
     Scene("class", 3, {"updateEnrollment", "parentProfile", "registerChild"}),
     Scene("class", 3, {"withdraw", "STUDENT", "createLecture"}),
     Scene("class", 3, {"createLecture", "migrate", "removeSeat", "deleteLecture", "createEnrollment"}),
     Scene("class", 4, {"createPost", "createComment", "updateStatus"}),
     Scene("class", 3, {"createPost", "updatePost", "deletePost"}),
     Scene("class", 4, {"createPost", "createComment", "deleteComment"}),
     Scene("class", 3, {"createPost", "createComment", "deleteComment", "updateComment"}),
     Scene("class", 3, {"createPost", "createComment", "deletePost", "updateEnrollment"}),
     Scene("empty", 3, {"uploadMaterial", "updateMaterial", "deleteMaterial"}),
     Scene("staffed", 4, {"uploadMaterial", "updateMaterial", "createOrder"}),
     Scene("staffed", 5, {"uploadMaterial", "updateMaterial", "createOrder", "deleteMaterial"}),
     Scene("staffed", 4, {"uploadMaterial", "createOrder", "updateOrder", "updateOrderStatus", "deleteOrder"}),
     Scene("empty", 3, {"uploadMaterial", "createNotice", "updateNotice"}),
     Scene("staffed", 2, {"createNotice", "updateNotice", "deleteNotice"}),
     Scene("staffed", 3, {"createNotice", "updateNotice"}),
     Scene("class", 3, {"createNotice", "createComment", "deleteComment", "deleteNotice"}),
     Scene("empty", 3, {"createCategory", "updateCategory", "deleteCategory", "createSchedule"}),
     Scene("empty", 3, {"createSchedule", "updateSchedule", "deleteSchedule", "createCategory"}),
     Scene("empty", 3, {"createProduct", "updateProduct", "createGrantProduct"})}
RetryScenes == {Scene("verified", 1, {"STUDENT"})}
MCSymmetry == Permutations(Requests) \cup Permutations(Users) \cup Permutations(Phones) \cup Permutations(Codes)
              \cup Permutations(Enrollments) \cup Permutations(LectureIds)
=============================================================================
