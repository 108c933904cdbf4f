------------------------- MODULE MC_ExtensionSetup -------------------------
(***************************************************************************)
(* ExtensionSetup on a small PagerDuty account: page size 1, so that every *)
(* listing takes several pages, and the listings PagerDuty may hold when   *)
(* the plugin starts: no extension, an unrelated one first, an action with *)
(* the endpoint of an earlier deployment, and both actions installed.      *)
(***************************************************************************)
EXTENDS ExtensionSetup

Other == [label |-> "other", url |-> "stale"]
Stale(a) == [label |-> ActionLabel[a], url |-> "stale"]
Current(a) == [label |-> ActionLabel[a], url |-> "current"]

MCSchemas ==
    {<<WebhookSchema>>, <<"other", WebhookSchema>>, <<"other">>}

MCExts ==
    { <<>>,
      <<Other, Stale("approve")>>,
      <<Stale("deny"), Other, Stale("approve")>>,
      <<Current("approve"), Current("deny")>> }
=============================================================================
