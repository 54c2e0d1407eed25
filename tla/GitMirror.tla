-------------------------------- MODULE GitMirror --------------------------------
(***************************************************************************)
(* The bare mirror of one connection on disk, and the processes that use   *)
(* it: workers that build snapshots and requests that preview scope rules. *)
(* There is no lock; a process that finds no mirror fetches into a         *)
(* directory of its own and renames it.                                    *)
(*                                                                         *)
(* Commits are numbered as they are pushed; the provider's branch consists *)
(* of those from base to head.  A directory is the set of commits whose    *)
(* objects it has, the empty set while it does not exist.                  *)
(***************************************************************************)
EXTENDS Naturals

CONSTANTS Users, MaxHead,
          MayHappen  \* the incidents of an instance

Incidents == {"gitError", "forcePush", "crash"}

ASSUME HeadAssumption == MaxHead \in Nat
ASSUME IncidentAssumption == MayHappen \subseteq Incidents

VARIABLES
    base, head, \* the provider's branch
    mirror,     \* the mirror directory
    temp,       \* a user's directory <connection>.<uuid>.tmp
    want,       \* the commit that a user has resolved
    pc,
    incidents

vars == <<base, head, mirror, temp, want, pc, incidents>>

Steps == {"idle", "look", "fetch", "create", "recheck", "rename", "read"}

remote == base .. head

TypeOK ==
    /\ base \in Nat /\ head \in Nat
    /\ mirror \in SUBSET Nat
    /\ temp \in [Users -> SUBSET Nat]
    /\ want \in [Users -> Nat]
    /\ pc \in [Users -> Steps]
    /\ incidents \subseteq Incidents

Init ==
    /\ base = 0 /\ head = 0
    /\ mirror = {}
    /\ temp = [u \in Users |-> {}]
    /\ want = [u \in Users |-> 0]
    /\ pc = [u \in Users |-> "idle"]
    /\ incidents = {}

Never(kinds) == incidents \cap kinds = {}
Happens(kind) == kind \in MayHappen /\ incidents' = incidents \cup {kind}
Goto(u, step) == pc' = [pc EXCEPT ![u] = step]

\* git ls-remote, before the mirror is looked at.
Resolve(u) ==
    /\ pc[u] = "idle"
    /\ want' = [want EXCEPT ![u] = head]
    /\ Goto(u, "look")
    /\ UNCHANGED <<base, head, mirror, temp, incidents>>

\* Mutation of Look: a mirror that is there is used as it is.
LookOnce(u) ==
    /\ pc[u] = "look"
    /\ Goto(u, IF mirror = {} THEN "create" ELSE "read")
    /\ UNCHANGED <<base, head, mirror, temp, want, incidents>>

Look(u) ==
    /\ pc[u] = "look"
    /\ Goto(u, IF mirror = {} THEN "create" ELSE "fetch")
    /\ UNCHANGED <<base, head, mirror, temp, want, incidents>>

\* A fetch adds objects; refs that it prunes leave theirs behind.
Fetch(u) ==
    /\ pc[u] = "fetch"
    /\ mirror' = mirror \cup remote
    /\ Goto(u, "read")
    /\ UNCHANGED <<base, head, temp, want, incidents>>

Create(u) ==
    /\ pc[u] = "create"
    /\ temp' = [temp EXCEPT ![u] = remote]
    /\ Goto(u, "recheck")
    /\ UNCHANGED <<base, head, mirror, want, incidents>>

\* Mutation of Recheck: it starts over with the creation.
RecheckCreates(u) ==
    /\ pc[u] = "recheck"
    /\ \/ mirror = {} /\ Goto(u, "rename") /\ UNCHANGED temp
       \/ mirror # {} /\ Goto(u, "create") /\ temp' = [temp EXCEPT ![u] = {}]
    /\ UNCHANGED <<base, head, mirror, want, incidents>>

\* Somebody else may have been faster: the mirror is used from the start again.
Recheck(u) ==
    /\ pc[u] = "recheck"
    /\ \/ mirror = {} /\ Goto(u, "rename") /\ UNCHANGED temp
       \/ mirror # {} /\ Goto(u, "look") /\ temp' = [temp EXCEPT ![u] = {}]
    /\ UNCHANGED <<base, head, mirror, want, incidents>>

\* Mutation of Rename: what is in the way is removed first.
RenameOver(u) ==
    /\ pc[u] = "rename"
    /\ mirror' = temp[u]
    /\ Goto(u, "read")
    /\ temp' = [temp EXCEPT ![u] = {}]
    /\ UNCHANGED <<base, head, want, incidents>>

\* A directory cannot be renamed over one that is not empty: who is still too late
\* fails, with nothing wrong in the repository.
Rename(u) ==
    /\ pc[u] = "rename"
    /\ \/ mirror = {} /\ mirror' = temp[u] /\ Goto(u, "read") /\ UNCHANGED want
       \/ mirror # {} /\ Goto(u, "idle") /\ want' = [want EXCEPT ![u] = 0]
             /\ UNCHANGED mirror
    /\ temp' = [temp EXCEPT ![u] = {}]
    /\ UNCHANGED <<base, head, incidents>>

\* git rev-parse, ls-tree and cat-file of the resolved commit, which fail if the mirror
\* does not have it.
Read(u) ==
    /\ pc[u] = "read"
    /\ Goto(u, "idle")
    /\ want' = [want EXCEPT ![u] = 0]
    /\ UNCHANGED <<base, head, mirror, temp, incidents>>

\* A git command fails, also because another process is writing to the mirror.
GitFails(u) ==
    /\ pc[u] \in {"fetch", "create"}
    /\ Happens("gitError")
    /\ Goto(u, "idle")
    /\ want' = [want EXCEPT ![u] = 0]
    /\ UNCHANGED <<base, head, mirror, temp>>

\* The temporary directory of a dead process stays behind under a name of its own.
Crash(u) ==
    /\ pc[u] # "idle"
    /\ Happens("crash")
    /\ Goto(u, "idle")
    /\ temp' = [temp EXCEPT ![u] = {}]
    /\ want' = [want EXCEPT ![u] = 0]
    /\ UNCHANGED <<base, head, mirror>>

Push ==
    /\ head < MaxHead
    /\ head' = head + 1
    /\ \/ UNCHANGED <<base, incidents>>
       \/ base' = head' /\ Happens("forcePush")
    /\ UNCHANGED <<mirror, temp, want, pc>>

UserStep(u) ==
    \/ Look(u) \/ Fetch(u) \/ Create(u) \/ Recheck(u) \/ Rename(u) \/ Read(u)
    \/ GitFails(u)

Next == Push \/ \E u \in Users : Resolve(u) \/ UserStep(u) \/ Crash(u)

Spec == Init /\ [][Next]_vars /\ \A u \in Users : WF_vars(UserStep(u))

\* Whoever reads finds the commit that it resolved before the mirror was fetched, as
\* long as the branch only grows (ensure_synced_mirror, read_snapshot_entries).
ReadsWhatItResolved == Never({"forcePush"}) =>
    \A u \in Users : pc[u] = "read" => (mirror # {} /\ want[u] \in mirror)

\* A mirror that is there is never replaced by one with fewer commits, which another
\* process may be about to read, force pushes or not (the second exists() and the rename).
MirrorKeepsCommits == [][mirror # {} => (mirror' # {} /\ mirror \subseteq mirror')]_vars

\* Every use of the mirror ends: who finds that the mirror has appeared meanwhile calls
\* ensure_synced_mirror again, and not for ever.
UseEnds == \A u \in Users : (pc[u] # "idle") ~> (pc[u] = "idle")

\* The strengthening of ReadsWhatItResolved: a commit that has been resolved is still
\* on the branch, and in the directory that the user has fetched.
MirrorInv ==
    /\ TypeOK
    /\ base <= head
    /\ \A u \in Users : /\ pc[u] \in {"recheck", "rename"} => temp[u] # {}
                        /\ pc[u] \in {"fetch", "read"} => mirror # {}
    /\ Never({"forcePush"}) => \A u \in Users :
          /\ pc[u] # "idle" => want[u] \in remote
          /\ pc[u] \in {"recheck", "rename"} => want[u] \in temp[u]
    /\ ReadsWhatItResolved
===============================================================================
