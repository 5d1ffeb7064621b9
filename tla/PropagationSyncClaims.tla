------------------------ MODULE PropagationSyncClaims ------------------------
(***************************************************************************)
(* What comments of device/node/propagation.go say of fetching messages,   *)
(* and the code does not do.                                               *)
(***************************************************************************)
EXTENDS PropagationSync

\* RequestMessages: "If we already have an active link, use it directly."
\* (propagation.go:56)  It calls sendListRequest, which locks propagationMu
\* again, so that nobody gets the mutex any more.
ActiveLinkIsUsed == propagationMu = "free"

\* RequestMessages: "Progress and completion are reported via
\* PropagationSyncUpdate events." (propagation.go:45)  A link that does not
\* come up is closed before propagationLink is set to it, so its closed
\* callback finds nothing to report: "link establishing" is the last word.
EstablishingIsReported ==
  propagationState = "LinkEstablishing" ~> propagationState # "LinkEstablishing"
==============================================================================
