---------------------------- MODULE MCAccountPurge ----------------------------
(* Two purge workers and one invocation of the removal path, over one item.    *)
EXTENDS AccountPurge
=============================================================================
