---------------------------- MODULE ConfigStore ----------------------------
(***************************************************************************)
(* cmd/vertex-config: the versions of one managed service, what an         *)
(* operator does to them, and the version each store is served.  Every     *)
(* method of configStore holds cs.mu throughout, so each is one action;    *)
(* services have separate lists and do not interact.                       *)
(*                                                                         *)
(* A version is its position in the list.  Its data, checksum and dates    *)
(* decide nothing; sha256(store) % 100 is the constant Bucket.             *)
(***************************************************************************)
EXTENDS Integers, Sequences, FiniteSetsExt

CONSTANTS
  Stores,       \* the store ids that ask for a configuration
  Bucket,       \* the hash bucket of each store
  Pcts,         \* the canary_pct values operators use; the code checks none
  MaxVersions   \* bound: no more than this many versions are published

ASSUME ConfigAssumption ==
  /\ Bucket \in [Stores -> 0..99]
  /\ Pcts \subseteq Int
  /\ MaxVersions \in Nat

VARIABLE versions   \* cs.versions[service], oldest first

configVersion == [pct : Int, rolledBack : BOOLEAN]

\* The answer of active before anything is published.
None == 0

Newest    == Len(versions)
Known(v)  == v \in DOMAIN versions
\* Promoted, or published to every store.
IsFull(v) == versions[v].pct >= 100
Good      == {v \in DOMAIN versions : IsFull(v) /\ ~versions[v].rolledBack}

inCanaryBucket(s, pct) == pct > 0 /\ Bucket[s] < pct

\* Mutant: a new version reaches every store at once.
TargetedAll(s, v) == versions[v].pct > 0
Targeted(s, v) == IsFull(v) \/ inCanaryBucket(s, versions[v].pct)

\* Mutants: the fallback takes a canary; a rolled back version stays active.
activeFallsToCanary(s) ==
  LET Sound == {v \in DOMAIN versions : ~versions[v].rolledBack}
  IN  CASE versions = <<>> -> None
        [] versions # <<>> /\ ~versions[Newest].rolledBack
                           /\ Targeted(s, Newest)           -> Newest
        [] OTHER -> IF Sound # {} THEN Max(Sound) ELSE 1

activeIgnoresRollback(s) ==
  CASE versions = <<>> -> None
    [] versions # <<>> /\ Targeted(s, Newest) -> Newest
    [] OTHER -> IF Good # {} THEN Max(Good) ELSE 1

\* The version store s is served: the newest if it is meant for s, else the
\* newest that is full and not rolled back, else the very first.
active(s) ==
  CASE versions = <<>> -> None
    [] versions # <<>> /\ ~versions[Newest].rolledBack
                       /\ Targeted(s, Newest)            -> Newest
    [] OTHER -> IF Good # {} THEN Max(Good) ELSE 1

publish(p) ==
  /\ Newest < MaxVersions
  /\ versions' = Append(versions, [pct |-> p, rolledBack |-> FALSE])

\* An unknown version is answered with 404 and changes nothing.
promote(v) ==
  /\ Known(v)
  /\ versions' = [versions EXCEPT ![v] = [pct |-> 100, rolledBack |-> FALSE]]

rollback(v) ==
  /\ Known(v)
  /\ versions' = [versions EXCEPT ![v].rolledBack = TRUE]
=============================================================================
