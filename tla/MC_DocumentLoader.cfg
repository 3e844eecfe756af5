CONSTANTS
  NumChunks = 3
  MaxRedirects = 1
  StartURLs = {"http", "empty", "blank", "file"}
  Responses <- MCResponses
  RedirectStatuses = {303, 308}
  ShowableMimes = {"text/html", "multipart/related"}
  LocalSchemes = {"file"}
  EmptySchemes = {"blank"}
  SubstituteChoices = {FALSE, TRUE}

SPECIFICATION Spec

INVARIANT TypeOK
INVARIANT ParsedInDeliveryOrder
INVARIANT NoChunkStranded
INVARIANT NoDocumentForRejectedNavigation

PROPERTY NoParseAfterDetach
PROPERTY CommitNeedsFrame
