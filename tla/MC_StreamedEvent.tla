--------------------------- MODULE MC_StreamedEvent ---------------------------
(***************************************************************************)
(* Small instances of StreamedEvent: a handful of blocks, chunks of a few  *)
(* blocks, one or two at a time.                                           *)
(***************************************************************************)
EXTENDS StreamedEvent

FromBounds == {0, Latest}
ToBounds == {3, Latest}
ProviderHeads == {1, 10}

\* A whole range only.
FromStart == {0}
ToHead == {Latest}

ProviderHints == {NoHint, 4}
NoHints == {NoHint}
===============================================================================
