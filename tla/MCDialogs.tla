------------------------------ MODULE MCDialogs ------------------------------
EXTENDS Dialogs, TLC
\* One dialog of each shape, and each place that has dialogs.
Some == {"create", "search", "merge", "push_tag", "set_upstream", "remove_worktree",
         "add_worktree", "track", "untrack", "undo", "operation", "publish", "force", "remotes",
         "set_url", "remove_remote"}
=============================================================================
