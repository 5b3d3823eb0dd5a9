----------------------------- MODULE MCSoroban -----------------------------
(***************************************************************************)
(* Small proxies and nodes for Soroban: each address type, a refusal of    *)
(* each kind, a handshake cut short, an answer that is good, has no        *)
(* result, is no JSON or is an error, and answers cut short.               *)
(***************************************************************************)
EXTENDS Soroban

MCGranted4 == <<5, 0, 5, 0, 0, 1, 127, 0, 0, 1, 0, 80>>
MCGranted6 == <<5, 0, 5, 0, 0, 4, 0, 0, 0, 0, 0, 0, 0, 0, 0, 0, 0, 0, 0, 0, 0, 0, 0, 80>>
MCGrantedName == <<5, 0, 5, 0, 0, 3, 2, 97, 98, 0, 80>>

MCBodies ==
  {<<Status200, Piece, WholeJson>>, <<Status200, NoResult>>, <<Status200, NotJson>>,
   <<Status500, Piece>>, <<Status200, Piece>>, <<>>}

MCScripts ==
  {MCGranted4 \o b : b \in MCBodies}
    \cup {MCGranted6 \o <<Status200, WholeJson>>, MCGrantedName \o <<Status200, WholeJson>>}
    \cup {<<4, 0>>, <<5, 2>>, <<5, 0, 5, 4, 0, 1>>, <<5, 0, 5, 0, 0, 7>>, <<5, 0, 5, 0, 0, 3, 9, 97>>}
=============================================================================
