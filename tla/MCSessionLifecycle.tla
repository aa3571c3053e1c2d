------------------------- MODULE MCSessionLifecycle -------------------------
(* One session, with one file, beside the CA sessions of other clients, the *)
(* server and the CLI's disconnect; one of them dies at most once.          *)
EXTENDS SessionLifecycle

AllFaults == {"crash", "outage", "remove", "git"}
=============================================================================
