SPECIFICATION AssetsSpec
CONSTANTS
  plain = plain  old = old  new = new
  Nothing = Nothing
  Browsers = {old}
  Accept <- Accepts
  ProxyPath <- NoPath
  Prefix <- OneDir
  Subtree = TRUE
  Below <- Js
  Processor = FALSE
  Versions = {1, 2}
  Layouts <- AllLayouts
  MaxDeploys = 1
  ErrorsAllowed = FALSE
  EditsLive = TRUE
  ComesBack = FALSE
INVARIANT ShowsCurrent
CHECK_DEADLOCK FALSE
