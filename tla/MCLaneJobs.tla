----------------------------- MODULE MCLaneJobs -----------------------------
(***************************************************************************)
(* Vendor schemas for TLC.                                                 *)
(***************************************************************************)
EXTENDS LaneJobs

NoChildren == [n \in {} |-> {}]

S(kind, from, of, path, when, capture, children) ==
    [kind |-> kind, from |-> from, of |-> of, path |-> path, when |-> when,
     capture |-> capture, children |-> children]

Def(required, strategies) == [required |-> required, strategies |-> strategies]

\* Below MaxDepth: never reached.
Sensors == Def(FALSE, <<S("inline-collection", "none", "none", "none", FALSE, {}, NoChildren)>>)

\* Reached by the nearest capture.
Volumes == Def(FALSE, <<S("object", "capture", "id", "none", FALSE, {}, [n \in {"Sensors"} |-> Sensors])>>)

\* In the parent's body.
Drives == Def(TRUE, <<S("inline-collection", "parent", "none", "drives", FALSE, {"id"},
                        [n \in {"Volumes"} |-> Volumes])>>)

\* Another declaration of the same child.
NoDrives == Def(FALSE, <<S("object", "parent", "none", "drives", FALSE, {}, NoChildren)>>)

\* The System: in Fast it may be the body of the discovery.
System == Def(TRUE, <<S("object", "capture", "system_uri", "none", TRUE, {}, NoChildren)>>)

\* An object that System links to, on a condition.
Thermal == Def(FALSE, <<S("object", "resource", "System", "drives", TRUE, {}, [n \in {"Fans"} |-> Sensors])>>)

\* An object with a condition; telemetry; a collection, and another one to fall
\* back on.
Storage == Def(FALSE,
    <<S("object", "template", "none", "none", TRUE, {}, [n \in {"Drives"} |-> NoDrives]),
      S("telemetry-reports", "capture", "telemetry_service", "none", FALSE, {}, NoChildren),
      S("collection", "capture", "chassis_uri", "none", FALSE, {"id"}, [n \in {"Drives"} |-> Drives]),
      S("collection", "template", "none", "none", FALSE, {"id"}, NoChildren)>>)

\* A capture that only records below Storage have.
Power == Def(FALSE, <<S("object", "capture", "id", "none", FALSE, {}, NoChildren)>>)

TheResources == [n \in {"System", "Thermal", "Storage", "Power"} |->
    CASE n = "System" -> System [] n = "Thermal" -> Thermal [] n = "Storage" -> Storage [] n = "Power" -> Power]
TheDefinitions == {System, Thermal, Storage, Power, Drives, NoDrives, Volumes, Sensors}
TheLanes == [l \in {"fast", "slow"} |-> IF l = "fast" THEN <<"System", "Thermal", "Thermal">> ELSE <<"Storage", "Power">>]
TheCaptures == {"telemetry_service", "system_uri", "chassis_uri", "id"}
TheBodies == {{}, {"id", "drives"}}
TheMembers == {<<>>, <<"other", "inline">>, <<"link", "link", "link">>}

TheRootLinks == {{"managers"}, {"managers", "chassis_collection"}, {"chassis_collection"}}
Rule(priority, requires, schema) == [priority |-> priority, requires |-> requires, schema |-> schema]
TheRules == <<Rule(1, {"manager_uri"}, "v2"), Rule(2, {"manager_uri", "chassis_uri"}, "legacy"),
              Rule(2, {"manager_uri", "chassis_uri"}, "v2"), Rule(3, {}, "unavailable")>>
TheObserved == {{}, {1}, {2}, {1, 2, 3}, {1, 4}}

TheKeys == <<2, 0, 0>>
TheRecords == <<3, 1, 1>>

=============================================================================
