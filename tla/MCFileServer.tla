---------------------------- MODULE MCFileServer ----------------------------
(* Three clients and two descriptors, a file of one chunk, one kill.        *)
EXTENDS FileServer
=============================================================================
