----------------------------- MODULE MCTerminal -----------------------------
(* The parts of a terminal around its sales, one at a time: PINs as they are *)
(* keyed and as they are judged, with their sessions, heartbeats, policies,  *)
(* updates, migrations, enrolment, the scale, the rows of its tables and the *)
(* index its products are searched by.                                       *)
EXTENDS PinAccess, Heartbeat, SecurityPolicies, Updater, Migrations, Enrolment, ScaleReader,
        StoredRows, ProductIndex, PinPad
VARIABLE part
Parts == {"pin", "heartbeat", "policies", "update", "migrate", "enrol", "scale", "rows", "search",
          "pad"}
FirstPin == [i \in 1..Shortest |-> CHOOSE d \in Digits : TRUE]
MCInit == /\ part \in Parts /\ PinInit /\ HeartInit /\ EnrolInit /\ IndexInit
          /\ PolicyInit /\ (part = "policies" \/ published = <<Omitted>>)
          /\ UpdaterInit /\ (part = "update" \/ ~nested)
          /\ MigrationInit /\ (part = "migrate" \/ versions = {})
          /\ ScaleInit /\ (part = "scale" \/ protocol = "cas")
          /\ RowsInit /\ (part = "rows" \/ declared = [fields |-> <<"key", "name", "kind">>, conflict |-> "Fail"])
          /\ PadInit /\ (part = "pad" \/ (carried = AnyLength /\ row = "active" /\ secret = FirstPin))
Turn(p, next, vars) == IF part = p THEN next ELSE UNCHANGED vars
MCNext == /\ UNCHANGED part
          /\ Turn("pin", PinNext, pinVars) /\ Turn("heartbeat", HeartNext, heartVars)
          /\ Turn("policies", PolicyNext, policyVars) /\ Turn("update", UpdaterNext, updaterVars)
          /\ Turn("migrate", MigrationNext, migrationVars) /\ Turn("enrol", EnrolNext, enrolVars)
          /\ Turn("scale", ScaleNext, scaleVars) /\ Turn("rows", RowsNext, rowVars)
          /\ Turn("search", IndexNext, indexVars) /\ Turn("pad", PadNext, padVars)
MCSpec == MCInit /\ [][MCNext]_<<pinVars, heartVars, policyVars, updaterVars, migrationVars,
                                 enrolVars, scaleVars, rowVars, indexVars, padVars, part>>
=============================================================================
