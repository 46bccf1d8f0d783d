-------------------------- MODULE MCBackupHistory --------------------------
EXTENDS BackupHistory

(* One day of the week, a window in its second half; and two days in a row,  *)
(* a window over midnight.                                                 *)
MCPolicies == {[mode |-> "weekly", days |-> {1}, start |-> 1, end |-> 3],
               [mode |-> "weekly", days |-> {1, 2}, start |-> 2, end |-> 1]}

MCCleanups == {[days |-> 1, keep |-> 1]}
=============================================================================
