------------------------ MODULE MCAsyncChannelManager ------------------------
(* Instances of AsyncChannelManager for TLC. *)
EXTENDS AsyncChannelManager, TLC

CONSTANTS r1, r2, r3

Files     == r1 :> "download" @@ r2 :> "upload" @@ r3 :> "ctrl"
TwoPlain  == r1 :> "plain" @@ r2 :> "plain"
WithEmpty == r1 :> "empty" @@ r2 :> "plain"
===============================================================================
