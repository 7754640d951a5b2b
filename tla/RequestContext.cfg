CONSTANTS
  RequestUrl = "page"
  PageUrls = {"page", "next", "ad"}
  FrameUrls = {"frame", "ad"}
  ResourceUrls = {"style", "ad"}
  ExcludedUrls = {"ad"}
  ScriptedUrls = {"page", "ad"}
  StyleUrls = {"style", "ad"}
  Settings <- MCSettings
  MaxPages = 2
  MaxIdentifiers = 3
  MaxPosts = 1
SPECIFICATION Spec
INVARIANTS
  UrlNamesHeader
  OnlySinceRedirect
  ResourcesAsReceived
  LogTellsWholeLoad
PROPERTIES
  PostedAfterOnload
\* The load ends with its answer.
CHECK_DEADLOCK FALSE
