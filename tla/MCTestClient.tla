---------------------------- MODULE MCTestClient ----------------------------
(* Model-checking instance of TestClient. *)
EXTENDS TestClient
===============================================================================
