-------------------------- MODULE MCKeyValueStore --------------------------
(* One KeyValueStore with a few keys and threads.                           *)
EXTENDS KeyValueStore

\* What happens after a deleted Key was left in kv_map is not followed: the
\* first state with one is checked and has no successors.
KeysIntact == ~ stale_key
=============================================================================
