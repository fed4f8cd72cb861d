---------------------------- MODULE MCRoundRunner ----------------------------
(* Rounds of serve and of a user over one work tree.                        *)
EXTENDS RoundRunner, TLC

With(action, log_dir, hazards) ==
    [dirty_action |-> action, log_dir |-> log_dir, hazards |-> hazards]

(* A user's rounds and a serve that dies are kept apart: together they only *)
(* repeat what each does alone.                                             *)
MCConfigs ==
    {With("stash", "outside", {"hand", "rot", "abort"}),
     With("stash", "in_tree", {"orphan", "rot", "abort", "git_timeout", "git_fails"}),
     With("stash", "outside", {"orphan", "git_timeout", "git_fails"}),
     With("auto_commit", "outside", {"hand", "git_timeout", "git_fails"}),
     With("ignore", "in_tree", {"orphan", "abort"})}

MCSymmetry == Permutations(Procs)

MCTimeoutConfigs == {With("stash", "outside", {"git_timeout"})}
=============================================================================
