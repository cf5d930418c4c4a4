---------------------------- MODULE MCTaskTree ----------------------------
EXTENDS TaskTree

CONSTANTS p1, p2

Symmetry == Permutations({p1, p2})

\* A tree: parents, statuses and owners of its tasks, all at version 1.
Tree(parent, status, owner) ==
  [t \in Tasks |-> IF t \in DOMAIN parent
     THEN [life |-> "live", parent |-> parent[t], status |-> status[t],
           owner |-> owner[t], version |-> 1]
     ELSE [life |-> "unborn", parent |-> Root, status |-> "not_started",
           owner |-> Inherit, version |-> 0]]

Seed(tree, dependencies) == [tasks |-> tree, edges |-> dependencies]

\* A parent with two children that belong to two members; a parent whose
\* children are completed; a parent with one child, room for two more tasks.
MCFamily ==
  {Seed(Tree(<<0, 1, 1>>, <<"in_progress", "in_progress", "not_started">>,
             <<"ann", "ann", "bob">>), {}),
   Seed(Tree(<<0, 1, 1>>, <<"in_progress", "done", "done">>,
             <<"ann", "bob", "ann">>), {<<2, 3>>}),
   Seed(Tree(<<0, 1>>, <<"in_progress", "not_started">>, <<"ann", "inherit">>), {})}

\* A parent and two children, one after the other, none of them completed;
\* two tasks at the top, one with a child.
MCCompleting ==
  {Seed(Tree(<<0, 1, 1>>, <<"in_progress", "in_progress", "in_progress">>,
             <<"ann", "inherit", "bob">>), {<<2, 3>>}),
   Seed(Tree(<<0, 1, 0>>, <<"in_progress", "in_progress", "in_progress">>,
             <<"ann", "ann", "bob">>), {})}

\* A parent whose children are completed, one after the other.
MCCompleted ==
  {Seed(Tree(<<0, 1, 1>>, <<"in_progress", "done", "done">>,
             <<"ann", "ann", "ann">>), {<<2, 3>>})}

\* A task at the top with a child, another two levels down with a child.
MCBranches ==
  {Seed(Tree(<<0, 0, 2, 3, 1>>, [t \in 1..5 |-> "in_progress"],
             [t \in 1..5 |-> "ann"]), {})}

===========================================================================
