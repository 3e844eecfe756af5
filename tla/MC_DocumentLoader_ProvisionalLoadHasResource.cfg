CONSTANTS
  NumChunks = 2
  MaxRedirects = 1
  StartURLs = {"http", "empty", "blank", "file"}
  Responses <- MCResponses
  RedirectStatuses = {303, 308}
  ShowableMimes = {"text/html", "multipart/related"}
  LocalSchemes = {"file"}
  EmptySchemes = {"blank"}
  SubstituteChoices = {FALSE, TRUE}

SPECIFICATION Spec


INVARIANT ProvisionalLoadHasResource
