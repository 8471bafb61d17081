---------------------------- MODULE MCHttpServer ----------------------------
(* Two workers share a queue that is full with two requests; of three      *)
(* requests one may be refused, one be queued and one be worked on.        *)
EXTENDS HttpServer
=============================================================================
