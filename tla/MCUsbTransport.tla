--------------------------- MODULE MCUsbTransport ---------------------------
(* Instantiates the USB transport for TLC: connections and round trips are *)
(* model values given in the .cfg files.                                   *)
EXTENDS UsbTransport

(* The requests callers make. A small body is prefetched and sent with its *)
(* Content-Length; a large body whose client stops early is sent chunked. *)
(* A body of unknown length, or a large one that is complete, is written   *)
(* exactly as the short large one (chunked, intact), and a short small one *)
(* fails before it allocates a connection, so these two cover the framing  *)
(* decisions of RoundTripWithSession.                                      *)
MCRequests ==
    {[cl |-> "small", short |-> FALSE], [cl |-> "large", short |-> TRUE]}
=============================================================================
