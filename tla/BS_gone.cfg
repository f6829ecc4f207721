\* Three tags over the allocation of MC_BorrowStack; checks remove_tags_above's returned tags, against its doc comment.
CONSTANTS
  RunSize <- MCRunSize
  Kinds <- MCKinds
  MaxTags = 3
SPECIFICATION Spec
VIEW StackView
CHECK_DEADLOCK FALSE
PROPERTY RemovedTagsGone
