------------------------------- MODULE MCWeb -------------------------------
(* Sessions and files for model-checking WebServer.                        *)
EXTENDS WebServer

MCSessions == 1 .. 2
=============================================================================
