--------------------------- MODULE XroeCommandsMC ---------------------------
(* XroeCommands for TLC: one antenna, one register that changes, two values *)
EXTENDS XroeCommands

SmallLive == {F("radio_cdc_error_31_0")}
=============================================================================
