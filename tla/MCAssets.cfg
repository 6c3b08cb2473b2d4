SPECIFICATION AssetsSpec
CONSTANTS
  plain = plain  old = old  new = new
  Nothing = Nothing
  Browsers = {plain, old, new}
  Accept <- Accepts
  ProxyPath <- NoPath
  Prefix <- OneDir
  Subtree = TRUE
  Below <- Js
  Processor = FALSE
  Versions = {1, 2}
  Layouts <- AllLayouts
  MaxDeploys = 1
  ErrorsAllowed = TRUE
  EditsLive = FALSE
  ComesBack = FALSE
INVARIANT ShowsCurrent
PROPERTY AssetFound
INVARIANT Readable
CHECK_DEADLOCK FALSE
