SPECIFICATION Spec
CONSTANTS
  Starts = {"svg", "math", "desc", "title", "mi", "annotation-xml", "annotation-html",
            "mglyph", "div", "br", "g"}
  Closed = {"svg", "desc", "mglyph", "title"}
  Ends = {"svg", "math", "desc", "title", "mi", "annotation-xml", "mglyph", "div", "g"}
  Astray = FALSE
  MaxOpen = 6
CONSTRAINT
  Followed
INVARIANTS
  
  
  
  MarkWithinStack
