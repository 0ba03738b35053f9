---- MODULE MC_ResourceManagement ----
(***************************************************************************)
(* A source whose provider comes in two versions, with a service under     *)
(* another name and with other objects in each.  The three services that   *)
(* the builder adds to every source have controllers of their own, which   *)
(* share nothing with these, and are left out.                             *)
(***************************************************************************)
EXTENDS ResourceManagement

McServices == {"main", "extra"}
Service(role, endpoints) ==
    [role |-> role, endpoints |-> endpoints, identity |-> FALSE, stores |-> {}]
McDefinitions == [main |-> Service("custom", {"External"}),
                  extra |-> Service("proxy", {"Internal"})]
McProviders == {{"main"}, {"extra"}}
McFirstProvider == {"extra"}
McSlots == 1..2
====
