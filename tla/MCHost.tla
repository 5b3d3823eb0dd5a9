------------------------------- MODULE MCHost -------------------------------
(***************************************************************************)
(* A machine with and without other services in torrc, with a block that   *)
(* lost its end, and with our directory declared outside the markers.      *)
(***************************************************************************)
EXTENDS Host

MCTorrcs ==
  {<<Empty>>,
   <<Empty, Empty, Empty, "SocksPort 9050", Empty, Empty, Empty, "HiddenServiceDir a", Empty, Empty>>,
   <<"SocksPort 9050", Begin, OwnDir, "HiddenServiceDir a", Empty>>,
   <<OwnDir, "HiddenServiceDir a", Empty>>}
=============================================================================
