SPECIFICATION Spec
CONSTANT Programs <- GroupingPrograms
INVARIANT GroupsAsDocumented
