-------------------------- MODULE ReplicationFilter --------------------------
(***************************************************************************)
(* EventReplicationFilter (pkg/host/replication_filter.go): which of the   *)
(* documents that peers offer the host stores.                             *)
(*                                                                         *)
(* A document is a record of its collection, its block number (or None),   *)
(* the address in its "to" or "address" field ("" when it has none) and    *)
(* its topics.  Addresses, topics and types are compared without regard to *)
(* case, so a value stands for all its spellings.  A filter configuration  *)
(* is a record: enabled, mode, cascade, range (min and max, or none at     *)
(* all) and groups.                                                        *)
(***************************************************************************)
EXTENDS Integers, Sequences

None == -1

\* The fields of a configuration; "enabled" is false for a nil filter.
FilterFields == {"enabled", "mode", "cascade", "range", "groups"}

FilteredCols == {"transaction", "log", "accessListEntry"}
StructuralCols == {"block", "blockSignature", "snapshotSignature"}

-----------------------------------------------------------------------------

\* inBlockRange: a document without a number is let through, and 0 is no upper bound.
InBlockRange(cfg, num) ==
  cfg.range = <<>> \/ num = None
  \/ (num >= cfg.range.min /\ (cfg.range.max > 0 => num <= cfg.range.max))

\* allowBlock reads another field and has the same bounds.
AllowBlock(cfg, d) ==
  cfg.range = <<>> \/ d.num = None
  \/ (d.num >= cfg.range.min /\ (cfg.range.max > 0 => d.num <= cfg.range.max))

\* Variant: no cascade.
AppliesWithoutCascade(cf, col, cascade) == col \in cf.types

\* contractAppliesToType.
ContractAppliesToType(cf, col, cascade) ==
  \/ col \in cf.types
  \/ cascade /\ "transaction" \in cf.types /\ col \in {"log", "accessListEntry"}

\* topicFilterMatches: the first topic is required, an empty later one is a wildcard.
TopicFilterMatches(tf, topics) ==
  /\ topics # <<>> /\ tf[1] # ""
  /\ \A i \in DOMAIN tf : tf[i] # "" => Len(topics) >= i /\ topics[i] = tf[i]

\* groupMatches: any contract filter or, for logs, any topic filter.
GroupMatches(cfg, g, d) ==
  \/ /\ d.addr # ""
     /\ \E cf \in g.contracts :
          ContractAppliesToType(cf, d.col, cfg.cascade) /\ cf.addr = d.addr
  \/ /\ d.col = "log"
     /\ \E tf \in g.topics : TopicFilterMatches(tf, d.topics)

EnabledGroups(cfg) == {g \in cfg.groups : g.enabled}

\* matchesGroups: any other mode than blocklist is allowlist; an allowlist without an
\* enabled group lets everything through.
MatchesGroups(cfg, d) ==
  LET matched == \E g \in EnabledGroups(cfg) : GroupMatches(cfg, g, d)
  IN  IF cfg.mode = "blocklist" THEN ~matched
                                ELSE EnabledGroups(cfg) = {} \/ matched

\* AllowReplication.
AllowReplication(cfg, d) ==
  \/ d.col = "block" /\ AllowBlock(cfg, d)
  \/ d.col \in StructuralCols \ {"block"}
  \/ /\ d.col \notin StructuralCols
     /\ InBlockRange(cfg, d.num)
     /\ d.col \in FilteredCols => MatchesGroups(cfg, d)

\* A nil filter (enabled: false) lets everything through.
Allowed(cfg, d) == cfg.enabled => AllowReplication(cfg, d)
=============================================================================
