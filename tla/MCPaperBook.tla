---------------------------- MODULE MCPaperBook ----------------------------
(* A core and a satellite pool of one token, or the core pool alone. *)
EXTENDS PaperBook, TLC
CONSTANTS core, sat

OneToken == (core :> core) @@ (sat :> core)
Sleeves  == (core :> "core") @@ (sat :> "satellite")
CoreMint   == core :> core
CoreSleeve == core :> "core"
Shares   == ("core" :> 85) @@ ("satellite" :> 15)

=============================================================================
