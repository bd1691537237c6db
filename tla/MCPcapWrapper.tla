--------------------------- MODULE MCPcapWrapper ---------------------------
(***************************************************************************)
(* break_loop calls as they meet in the program: the signal handler, the   *)
(* watchers, and the callback of the Wol_watcher's own loop.               *)
(***************************************************************************)
EXTENDS PcapWrapper, TLC

CONSTANTS handler, watcher, magic

AllLer == handler :> "signal" @@ watcher :> "duplicate_address" @@ magic :> "duplicate_address"

OneLer == handler :> "signal"
=============================================================================
