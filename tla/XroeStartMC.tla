---------------------------- MODULE XroeStartMC ----------------------------
(* XroeStart for TLC: the daemon of the script, one on another port, one   *)
(* that is given the port of the script's, one without the hardware, and   *)
(* one in the foreground.                                                  *)
EXTENDS XroeStart

SmallWays == {
  ByScript, [ByScript EXCEPT !.port = 5000], [ByScript EXCEPT !.port = XROE_COMM_PORT],
  [ByScript EXCEPT !.hw = FALSE],
  [ByScript EXCEPT !.daemonise = FALSE]}
=============================================================================
