SPECIFICATION AssetsSpec
CONSTANTS
  plain = plain  old = old  new = new
  Nothing = Nothing
  Browsers = {old}
  Accept <- Accepts
  ProxyPath <- NoPath
  Prefix <- OneDir
  Subtree = TRUE
  Below <- NoPath
  Processor = FALSE
  Versions = {1}
  Layouts <- Compressed
  MaxDeploys = 0
  ErrorsAllowed = FALSE
  EditsLive = FALSE
  ComesBack = FALSE
INVARIANT MissingIsNotFound
CHECK_DEADLOCK FALSE
