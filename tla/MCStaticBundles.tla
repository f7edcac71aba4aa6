--------------------------- MODULE MCStaticBundles ---------------------------
(* A small instance of StaticBundles for TLC. *)
EXTENDS StaticBundles

CONSTANTS logo, icon

(* Both names come to one key, as my-logo.svg and my_logo.svg do. *)
OneKey == [a \in Asset |-> "key"]

(* What follows an I/O failure no property speaks of, and but for Close's of  *)
(* overlapping rebuilds neither.                                              *)
NoMishap == mishap \notin {"failed", "overlapped"}
=============================================================================
