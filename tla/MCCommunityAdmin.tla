-------------------------- MODULE MCCommunityAdmin --------------------------
(***************************************************************************)
(* Instances of CommunityAdmin for TLC: two gates, two managers, and as    *)
(* many identifiers as two calls that are each sent twice can use up.      *)
(***************************************************************************)
EXTENDS CommunityAdmin, TLC

MCEveryScene == {"entry", "codes", "tags", "short", "schedule", "hold", "roster",
                 "homes", "links", "alerts", "settings", "keys",
                 "lines", "fence"}
MCKeySchedule == {"schedule"}
MCReports == {"codes", "roster", "hold"}

MCUses == {1}

\* Nothing tells the managers apart, nor do calls choose among the members of
\* one of these pairs.  A behaviour is about one scene and so about one of the
\* pairs, and all may be swapped together.
MCPairs == {People, Owners, Boxes, Tags, Addresses, Hours}
MCMirror ==
    [x \in UNION MCPairs |-> CHOOSE y \in UNION MCPairs :
        y # x /\ \E pair \in MCPairs : {x, y} = pair]
MCSymmetry == Permutations(Managers) \cup {MCMirror}
=============================================================================
