-------------------------- MODULE MCKeeperRegistry --------------------------
(* Small instance of KeeperRegistry for TLC. *)
EXTENDS KeeperRegistry

CONSTANTS rebalance, archive, disclose, RebalanceKeeper, ArchiveKeeper

MCRoles   == {RebalanceKeeper, ArchiveKeeper}
MCActions == {rebalance, archive, disclose}

\* role.rs:119: one action for a rebalance keeper, two for an archive keeper.
MCScope == [r \in MCRoles |->
              IF r = RebalanceKeeper THEN {rebalance} ELSE {archive, disclose}]

MCTerms ==
  { \* an archive mandate narrower than its role, capped per action
    [role |-> ArchiveKeeper, scope |-> {archive}, from |-> 0, until |-> 2,
     maxActions |-> 2, perAction |-> 1, total |-> 2],
    \* a rebalance mandate that starts later, its total below its actions
    [role |-> RebalanceKeeper, scope |-> {rebalance}, from |-> 1, until |-> 2,
     maxActions |-> 3, perAction |-> Unlimited, total |-> 2],
    \* a total of u128::MAX: the running total saturates
    [role |-> RebalanceKeeper, scope |-> {rebalance}, from |-> 0, until |-> 3,
     maxActions |-> 2, perAction |-> Unlimited, total |-> 3],
    \* wider than the role: refused
    [role |-> RebalanceKeeper, scope |-> {rebalance, archive}, from |-> 0,
     until |-> 2, maxActions |-> 2, perAction |-> 1, total |-> 2] }

=============================================================================
