SPECIFICATION Spec
CONSTANTS
    s1 = s1
    s2 = s2
    s3 = s3
    Students = {s1, s2, s3}
    Number <- MCNumber
INVARIANTS TypeOK ReadsOwnWrite RevertedOnlyWhenOvertaken
CHECK_DEADLOCK FALSE
