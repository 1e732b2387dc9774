SPECIFICATION Spec
CONSTANTS
  Shapes <- OneComment
INVARIANT CommentsAreSkipped
