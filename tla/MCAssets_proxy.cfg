SPECIFICATION AssetsSpec
CONSTANTS
  plain = plain  old = old  new = new
  Nothing = Nothing
  Browsers = {old}
  Accept <- Accepts
  ProxyPath <- Proxy
  Prefix <- OneDir
  Subtree = TRUE
  Below <- Js
  Processor = FALSE
  Versions = {1}
  Layouts <- Compressed
  MaxDeploys = 0
  ErrorsAllowed = FALSE
  EditsLive = FALSE
  ComesBack = FALSE
INVARIANT UrlsAreBusted
CHECK_DEADLOCK FALSE
