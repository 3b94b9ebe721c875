SPECIFICATION Spec
CONSTANT MaxTokens = 5
INVARIANT TextIsParserSafe
CHECK_DEADLOCK FALSE
