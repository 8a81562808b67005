SPECIFICATION FairSpec
CONSTANTS
  Requests = {q1, q2}
  Streaming = {q1, q2}
  MaxReviews = 2
PROPERTIES ReviewResumes
CHECK_DEADLOCK FALSE
