---------------------------- MODULE MCHttpSessions ----------------------------
(* Small instances of HttpSessions for TLC. *)
EXTENDS HttpSessions

Shape(e, i, n, f) ==
  [endpoint |-> e, initialize |-> i, notification |-> n, faults |-> f]

MCShapes ==
  {Shape("post", i, n, {}) : i \in BOOLEAN, n \in BOOLEAN} \cup
  {Shape(e, FALSE, FALSE, {}) : e \in {"get", "delete", "rpc"}} \cup
  {Shape("post", TRUE, FALSE, {"origin", "accept"})}
=============================================================================
