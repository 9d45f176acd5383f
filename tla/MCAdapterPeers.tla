--------------------------- MODULE MCAdapterPeers ---------------------------
(* Two connections at once, and two descriptors besides the three of an    *)
(* adapter.  Both hashes give ports that the kernel takes.                  *)
EXTENDS AdapterPeers
MCConns == {1, 2}
MCFds   == 1 .. 5
MCHash  == <<7, 65000>>
=============================================================================
