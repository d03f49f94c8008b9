------------------------------ MODULE MCBackup ------------------------------
(* Instances of Backup for TLC: at most one fault at a time, besides a pair
   that makes each other worse. *)
EXTENDS Backup, TLC

BackupJobs == <<"postgres_backup", "restore_drill">>
EachFault == {{"crash"}, {"timeout"}, {"storage"}, {"db"}, {"rot"}, {"psql", "write"},
              {"restart"}, {"restart", "get_jobs"}}
NoFault == {{}}
Symmetric == Permutations(Runs) \cup Permutations(Drills)
=============================================================================
