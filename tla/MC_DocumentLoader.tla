------------------------- MODULE MC_DocumentLoader -------------------------
(***************************************************************************)
(* Model-checking instance of DocumentLoader.  Three chunks let a chunk    *)
(* queued by a reentrant dataReceived() sit behind a later top-level call; *)
(* one redirect exercises willSendRequest() with a redirect response.      *)
(***************************************************************************)
EXTENDS DocumentLoader

MCResponses ==
  [status: {200, 204}, mime: {"text/html", "multipart/related", "image/webp"},
   attachment: BOOLEAN]

=============================================================================
