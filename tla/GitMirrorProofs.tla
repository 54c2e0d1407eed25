----------------------------- MODULE GitMirrorProofs -----------------------------
(***************************************************************************)
(* Proof that a user of the mirror finds the commit that it resolved, for  *)
(* any number of users, pushes and incidents, as long as the branch only   *)
(* grows, and that a mirror on disk never loses commits.                   *)
(***************************************************************************)
EXTENDS GitMirror, TLAPS

\* Every step keeps MirrorInv.  Only Push changes the branch, only Fetch and Rename
\* change the mirror, and both only add to it.
LEMMA MirrorStep ==
  ASSUME MirrorInv, [Next]_vars
  PROVE  MirrorInv'
<1> USE DEF MirrorInv, TypeOK, ReadsWhatItResolved, Never, remote, Steps, Incidents, Goto
<1>1. CASE Push
  <2>1. base' \in Nat /\ head' \in Nat /\ base' <= head' /\ incidents' \subseteq Incidents
    <3>1. CASE UNCHANGED <<base, incidents>>
      BY <1>1, <3>1 DEF Push
    <3>2. CASE base' = head' /\ Happens("forcePush")
      BY <1>1, <3>2 DEF Push, Happens
    <3> QED
      BY <1>1, <3>1, <3>2 DEF Push
  <2>2. Never({"forcePush"})' => Never({"forcePush"}) /\ base' = base /\ head' = head + 1
    BY <1>1 DEF Push, Happens
  <2> QED
    BY <1>1, <2>1, <2>2 DEF Push
<1>2. ASSUME NEW u \in Users, Resolve(u) PROVE MirrorInv'
  BY <1>2 DEF Resolve
<1>3. ASSUME NEW u \in Users, Look(u) PROVE MirrorInv'
  BY <1>3 DEF Look
<1>4. ASSUME NEW u \in Users, Fetch(u) PROVE MirrorInv'
  BY <1>4 DEF Fetch
<1>5. ASSUME NEW u \in Users, Create(u) PROVE MirrorInv'
  BY <1>5 DEF Create
<1>6. ASSUME NEW u \in Users, Recheck(u) PROVE MirrorInv'
  BY <1>6 DEF Recheck
<1>7. ASSUME NEW u \in Users, Rename(u) PROVE MirrorInv'
  <2>1. CASE mirror = {}
    <3>1. /\ temp[u] # {} /\ mirror' = temp[u] /\ mirror' \in SUBSET Nat
          /\ temp' = [temp EXCEPT ![u] = {}] /\ pc' = [pc EXCEPT ![u] = "read"]
          /\ UNCHANGED <<base, head, want, incidents>>
      BY <1>7, <2>1 DEF Rename
    <3>2. TypeOK'
      BY <3>1
    <3>3. Never({"forcePush"})' => (want[u] \in mirror' /\ Never({"forcePush"}))
      BY <1>7, <3>1 DEF Rename
    <3>4. ASSUME NEW v \in Users
          PROVE  /\ pc'[v] \in {"recheck", "rename"} => temp'[v] # {}
                 /\ Never({"forcePush"})' =>
                       /\ pc'[v] # "idle" => want'[v] \in remote'
                       /\ pc'[v] \in {"recheck", "rename"} => want'[v] \in temp'[v]
                       /\ pc'[v] = "read" => want'[v] \in mirror'
      <4>1. CASE v = u
        BY <1>7, <3>1, <3>3, <4>1 DEF Rename
      <4>2. CASE v # u
        BY <2>1, <3>1, <3>3, <4>2
      <4> QED
        BY <4>1, <4>2
    <3> QED
      BY <2>1, <3>1, <3>2, <3>4
  <2>2. CASE mirror # {}
    <3>1. /\ temp' = [temp EXCEPT ![u] = {}] /\ pc' = [pc EXCEPT ![u] = "idle"]
          /\ want' = [want EXCEPT ![u] = 0]
          /\ UNCHANGED <<base, head, mirror, incidents>>
      BY <1>7, <2>2 DEF Rename
    <3>2. TypeOK'
      BY <3>1
    <3> QED
      BY <3>1, <3>2
  <2> QED
    BY <2>1, <2>2
<1>8. ASSUME NEW u \in Users, Read(u) PROVE MirrorInv'
  BY <1>8 DEF Read
<1>9. ASSUME NEW u \in Users, GitFails(u) PROVE MirrorInv'
  BY <1>9 DEF GitFails, Happens
<1>10. ASSUME NEW u \in Users, Crash(u) PROVE MirrorInv'
  BY <1>10 DEF Crash, Happens
<1>11. CASE UNCHANGED vars
  BY <1>11 DEF vars
<1> QED
  BY <1>1, <1>2, <1>3, <1>4, <1>5, <1>6, <1>7, <1>8, <1>9, <1>10, <1>11
     DEF Next, UserStep

\* Whatever a user has fetched covers what it has resolved, in every reachable state.
THEOREM MirrorInvariant == Spec => []MirrorInv
<1>1. Init => MirrorInv
  BY DEF Init, MirrorInv, TypeOK, ReadsWhatItResolved, Never, remote, Steps, Incidents
<1>2. MirrorInv /\ [Next]_vars => MirrorInv'
  BY MirrorStep
<1> QED
  BY <1>1, <1>2, PTL DEF Spec

\* Whoever reads the mirror finds its commit, unless the branch was rewritten.
THEOREM ReadsFindTheirCommit == Spec => []ReadsWhatItResolved
<1>1. MirrorInv => ReadsWhatItResolved
  BY DEF MirrorInv
<1> QED
  BY <1>1, MirrorInvariant, PTL

\* No step takes a commit out of a mirror or removes the mirror.
THEOREM MirrorKept == Spec => MirrorKeepsCommits
<1>1. MirrorInv /\ [Next]_vars
        => [mirror # {} => (mirror' # {} /\ mirror \subseteq mirror')]_vars
  <2> SUFFICES ASSUME MirrorInv, Next, mirror # {}
               PROVE  mirror' # {} /\ mirror \subseteq mirror'
    BY DEF vars
  <2>1. ASSUME NEW u \in Users, Fetch(u) PROVE mirror \subseteq mirror'
    BY <2>1 DEF Fetch
  <2>2. ASSUME NEW u \in Users, Rename(u) PROVE mirror' = mirror
    BY <2>2 DEF Rename
  <2>3. CASE Push
    BY <2>3 DEF Push
  <2>4. ASSUME NEW u \in Users,
               Resolve(u) \/ Look(u) \/ Create(u) \/ Recheck(u) \/ Read(u)
                 \/ GitFails(u) \/ Crash(u)
        PROVE  mirror' = mirror
    BY <2>4 DEF Resolve, Look, Create, Recheck, Read, GitFails, Crash
  <2> QED
    BY <2>1, <2>2, <2>3, <2>4 DEF Next, UserStep
<1> QED
  BY <1>1, MirrorInvariant, PTL DEF Spec, MirrorKeepsCommits
===============================================================================
