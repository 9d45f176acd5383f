---------------------------- MODULE MCHandshakes ----------------------------
(* Bluetooth: two peers, three connections, and a queue of two.  Wi-Fi: a  *)
(* peer with three ports, used again and again, so that late replies meet  *)
(* later attempts; the server keeps no state in which peers could meet.    *)
EXTENDS Handshakes
=============================================================================
