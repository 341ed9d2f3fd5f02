---------------------------- MODULE MCUsbConnRead ----------------------------
(* Response headers for usbConn.Read on an instance with a smaller bufio  *)
(* buffer: a status line, a header line, and the empty line that ends the *)
(* header. A header line of BufSize - Align + 1 bytes is the longest whose *)
(* unread part, when bufio slides it to the front and refills, leaves at   *)
(* least Align bytes free: 3585 bytes for the real 4096 and 512. The long  *)
(* header is one byte longer.                                              *)
EXTENDS UsbConnRead

MCLinesFit  == <<2, BufSize - Align + 1, 1>>
MCLinesLong == <<2, BufSize - Align + 2, 1>>
=============================================================================
