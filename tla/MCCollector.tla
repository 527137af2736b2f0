---------------------------- MODULE MCCollector ----------------------------
(* Collector for TLC.                                                       *)
EXTENDS Collector

MCSyscall ==
    {[type |-> "execve", path |-> "excluded"], [type |-> "open", path |-> "watchedSubstring"],
     [type |-> "ptrace", path |-> "plain"]}

\* A host file such as /etc/cron.d/x, on the allowlist by its prefix.
MCWatched == {[type |-> "open", path |-> "watchedPrefix"]}
=============================================================================
