----------------------------- MODULE MCMigrations ------------------------------
(* Two processes migrate, one of them also seeds the catalog, a third only       *)
(* connects.                                                                     *)
EXTENDS Migrations, TLC

CONSTANTS p1, p2, p3

MCMode == p1 :> "open" @@ p2 :> "migrate" @@ p3 :> "connect"
MCServices == <<"level80", "race">>
MCSets == <<"package", "missing">>
================================================================================
