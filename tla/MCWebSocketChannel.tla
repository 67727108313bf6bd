------------------------- MODULE MCWebSocketChannel -------------------------
(* Instances of WebSocketChannel for TLC: the sets are given by the        *)
(* configurations; connections are interchangeable in the safety runs.     *)
EXTENDS WebSocketChannel, TLC

Symmetry == Permutations(Conns) \union Permutations(Requests)
=============================================================================
