------------------------------ MODULE Quarantine ------------------------------
(***************************************************************************)
(* A mirror of a repository and its prune_repository() (Controller.cpp and *)
(* Trust.cpp).  A tool of the user copies new files from the primary       *)
(* repository to the mirror, one by one and in any order; the mirror never *)
(* takes a change or a deletion from the primary and prunes by itself,     *)
(* trusting the nodes that arrive at a limited rate.                       *)
(*                                                                         *)
(* The primary is a BackupHistory, which module SnapshotCommand implements.*)
(* A node is abstracted to its id file, whose content is a timestamp and   *)
(* never changes; nothing here reads a payload.  The two machines have a   *)
(* clock each, and either may be set back.                                 *)
(***************************************************************************)
EXTENDS FenwickTree

CONSTANTS
  MaxNode,       \* bound: the last node the primary takes
  MaxTime,       \* bound on what the mirror's clock shows
  PrimaryTimes,  \* what the primary's clock shows when it takes a snapshot
  MaxSetBacks,   \* bound on clocks set back
  MaxCrashes,    \* bound on crashes of the mirror's process
  MinGap,        \* min_seconds_between_snapshots
  NoFile, Torn

Nodes == 0..MaxNode
Times == 0..MaxTime

ControlStates == {"idle", "check", "prune", "open", "write"}

ASSUME QuarantineAssumption == /\ MaxNode \in Nat
                               /\ MaxTime \in Nat
                               /\ PrimaryTimes \subseteq 0..MaxTime
                               /\ MaxSetBacks \in Nat
                               /\ MaxCrashes \in Nat
                               /\ MinGap \in Nat
                               /\ {NoFile, Torn} \cap Nat = {}
                               /\ {NoFile, Torn} \cap [begin : Nat, at : Nat] = {}
                               /\ NoFile # Torn

VARIABLES
  \* The primary.
  next,      \* the node to take next
  kept,      \* the nodes stored
  stamp,     \* the timestamp in the id file of every node ever taken
  \* The mirror.
  mirror,    \* the nodes stored
  bread,     \* the breadcrumb file
  clock,
  \* The mirror's process.
  pc,
  crumb,     \* RepositoryStructure::breadcrumb
  now,
  updated,   \* maybe_updated_breadcrumb
  victims,   \* what is still to be deleted
  \* History variables, and how much of each bound is used.
  trusted,   \* how many nodes have been trusted
  rootAt,    \* when the root was trusted
  latest,    \* the latest time the clock has shown
  setBacks, crashes

primaryVars == <<next, kept, stamp>>
mirrorVars  == <<mirror, bread>>
processVars == <<pc, crumb, now, updated, victims>>
boundVars   == <<setBacks, crashes>>
vars == <<primaryVars, mirrorVars, clock, processVars, trusted, rootAt, latest, boundVars>>

Larger(a, b) == IF a >= b THEN a ELSE b

(* Breadcrumb{Node{0}, timestamp_t::min()} *)
NoCrumb == [begin |-> 0, at |-> 0]

CrumbOf(file) == IF file = NoFile THEN NoCrumb ELSE file

Init == /\ next = 0 /\ kept = {} /\ stamp = [n \in Nodes |-> NoFile]
        /\ mirror = {} /\ bread = NoFile /\ clock = 0
        /\ pc = "idle" /\ crumb = NoCrumb /\ now = 0 /\ updated = NoCrumb
        /\ victims = {}
        /\ trusted = 0 /\ rootAt = NoFile /\ latest = 0 /\ setBacks = 0 /\ crashes = 0

(* The definitions named Faulty... are slips that the code could contain;   *)
(* put in the place of the definition after them, each makes a property     *)
(* below fail.                                                              *)
-----------------------------------------------------------------------------
(* The primary prunes and then takes the next snapshot, whose timestamp t   *)
(* is what its clock shows; that is less than the timestamp of the node     *)
(* before only if the clock was set back.                                   *)
Primary == INSTANCE BackupHistory WITH archive <- <<>>

PrimaryForgets(n) == /\ next \in Nodes
                     /\ Primary!Forget(n)
                     /\ UNCHANGED <<stamp, mirrorVars, clock, processVars,
                                    trusted, rootAt, latest, boundVars>>

ClockWentBack(t) == next # 0 /\ t < stamp[next - 1]

(* Faulty: the primary takes the snapshot first and prunes later. *)
FaultyPrimaryTakes(t) == /\ next \in Nodes
                         /\ kept' = kept \cup {next}
                         /\ next' = next + 1
                         /\ ~ ClockWentBack(t)
                         /\ stamp' = [stamp EXCEPT ![next] = t]
                         /\ UNCHANGED <<mirrorVars, clock, processVars,
                                        trusted, rootAt, latest, boundVars>>

PrimaryTakes(t) == /\ next \in Nodes
                   /\ Primary!Take
                   /\ ClockWentBack(t) => setBacks < MaxSetBacks
                   /\ setBacks' = IF ClockWentBack(t) THEN setBacks + 1 ELSE setBacks
                   /\ stamp' = [stamp EXCEPT ![next] = t]
                   /\ UNCHANGED <<mirrorVars, clock, processVars, trusted, rootAt, latest,
                                  crashes>>

(* The tool copies a node that the mirror does not have. *)
Sync(n) == /\ n \in kept \ mirror
           /\ mirror' = mirror \cup {n}
           /\ UNCHANGED <<primaryVars, bread, clock, processVars,
                          trusted, rootAt, latest, boundVars>>

-----------------------------------------------------------------------------
(* The process ends, for whatever reason. *)
End == /\ pc' = "idle"
       /\ crumb' = NoCrumb /\ now' = 0 /\ updated' = NoCrumb /\ victims' = {}

(* The lock is taken, the breadcrumb file read, and the time taken once for *)
(* all nodes.                                                               *)
StartPruning == /\ pc = "idle"
                /\ bread # Torn
                /\ pc' = "check"
                /\ crumb' = CrumbOf(bread)
                /\ now' = clock
                /\ UNCHANGED <<primaryVars, mirrorVars, clock, updated, victims,
                               trusted, rootAt, latest, boundVars>>

(* A breadcrumb file that was cut short: the constructor throws.            *)
StartFails == /\ pc = "idle"
              /\ bread = Torn
              /\ UNCHANGED vars

(***************************************************************************)
(* maybeUpdateBreadcrumb().  The candidate is the node at the breadcrumb.  *)
(***************************************************************************)
Candidate == stamp[crumb.begin]
Previous  == stamp[crumb.begin - 1]

(* Faulty: counts from the timestamp of the node before. *)
FaultyQuarantineEnds == Previous + MinGap

QuarantineEnds == crumb.at + MinGap

TrustedAt    == Larger(QuarantineEnds, Candidate)
EffectiveNow == Larger(crumb.at, now)

(* Faulty: the candidate may be older than the node before; the quarantine  *)
(* need not have ended.                                                     *)
FaultyMayTrustOlder == \/ crumb.begin = 0
                       \/ crumb.begin - 1 \in mirror /\ EffectiveNow >= TrustedAt

FaultyMayTrustEarly == \/ crumb.begin = 0
                       \/ crumb.begin - 1 \in mirror /\ Candidate >= Previous

(* The root is trusted at once.  An exception for a node before that is not *)
(* there, a candidate older than the node before, and a quarantine that has *)
(* not ended all end the run.                                               *)
MayTrust == \/ crumb.begin = 0
            \/ /\ crumb.begin - 1 \in mirror
               /\ Candidate >= Previous
               /\ EffectiveNow >= TrustedAt

Updated == IF crumb.begin = 0 THEN [begin |-> 1, at |-> now]
                              ELSE [begin |-> crumb.begin + 1, at |-> TrustedAt]

(* Faulty: the victims of the node after the candidate. *)
FaultyTrust == /\ pc = "check"
               /\ crumb.begin \in mirror
               /\ MayTrust
               /\ updated' = Updated
               /\ victims' = Pruned(crumb.begin + 1)
               /\ pc' = "prune"
               /\ UNCHANGED <<primaryVars, mirrorVars, clock, crumb, now,
                              trusted, rootAt, latest, boundVars>>

(* prune() has no victims for the root. *)
Trust == /\ pc = "check"
         /\ crumb.begin \in mirror
         /\ MayTrust
         /\ updated' = Updated
         /\ victims' = Pruned(crumb.begin)
         /\ pc' = "prune"
         /\ UNCHANGED <<primaryVars, mirrorVars, clock, crumb, now,
                        trusted, rootAt, latest, boundVars>>

Stop == /\ pc = "check"
        /\ crumb.begin \in mirror => ~ MayTrust
        /\ End
        /\ UNCHANGED <<primaryVars, mirrorVars, clock, trusted, rootAt, latest, boundVars>>

(* deleteNode(), greatest victim first. *)
DeleteNode(v) == /\ pc = "prune"
                 /\ v \in victims /\ \A w \in victims : w <= v
                 /\ mirror' = mirror \ {v}
                 /\ victims' = victims \ {v}
                 /\ UNCHANGED <<primaryVars, bread, clock, pc, crumb, now, updated,
                                trusted, rootAt, latest, boundVars>>

PruneDone == /\ pc = "prune"
             /\ victims = {}
             /\ pc' = "open"
             /\ UNCHANGED <<primaryVars, mirrorVars, clock, crumb, now, updated, victims,
                            trusted, rootAt, latest, boundVars>>

(* writeBreadcrumb(): open with O_TRUNC, then write; then the loop goes on. *)
OpenCrumb == /\ pc = "open"
             /\ bread' = Torn
             /\ pc' = "write"
             /\ UNCHANGED <<primaryVars, mirror, clock, crumb, now, updated,
                            victims, trusted, rootAt, latest, boundVars>>

(* Faulty: the file is written, the memory is not. *)
FaultyWriteCrumb == /\ pc = "write"
                    /\ bread' = updated
                    /\ pc' = "check"
                    /\ trusted' = updated.begin
                    /\ rootAt' = IF crumb.begin = 0 THEN updated.at ELSE rootAt
                    /\ UNCHANGED <<primaryVars, mirror, clock, crumb, now, updated,
                                   victims, latest, boundVars>>

WriteCrumb == /\ pc = "write"
              /\ bread' = updated
              /\ crumb' = updated
              /\ pc' = "check"
              /\ trusted' = updated.begin
              /\ rootAt' = IF crumb.begin = 0 THEN updated.at ELSE rootAt
              /\ UNCHANGED <<primaryVars, mirror, clock, now, updated, victims,
                             latest, boundVars>>

-----------------------------------------------------------------------------
Crash == /\ pc # "idle"
         /\ crashes < MaxCrashes
         /\ crashes' = crashes + 1
         /\ End
         /\ UNCHANGED <<primaryVars, mirrorVars, clock, trusted, rootAt, latest, setBacks>>

Tick == /\ clock < MaxTime
        /\ clock' = clock + 1
        /\ latest' = Larger(latest, clock + 1)
        /\ UNCHANGED <<primaryVars, mirrorVars, processVars, trusted, rootAt, boundVars>>

SetBack(t) == /\ t < clock
              /\ setBacks < MaxSetBacks
              /\ setBacks' = setBacks + 1
              /\ clock' = t
              /\ UNCHANGED <<primaryVars, mirrorVars, processVars, trusted, rootAt, latest,
                             crashes>>

-----------------------------------------------------------------------------
PruneCommand == \/ Trust \/ Stop
                \/ \E v \in victims : DeleteNode(v)
                \/ PruneDone \/ OpenCrumb \/ WriteCrumb

PrimaryStep == \/ \E t \in PrimaryTimes : PrimaryTakes(t)
               \/ \E n \in kept : PrimaryForgets(n)

Next == \/ PrimaryStep
        \/ \E n \in kept : Sync(n)
        \/ StartPruning \/ StartFails \/ PruneCommand
        \/ Crash \/ Tick \/ \E t \in Times : SetBack(t)

Spec == Init /\ [][Next]_vars

(* A process that runs is scheduled.  The commands and the copying tool are *)
(* started again and again (by cron, in README.md's typical configuration), *)
(* and time passes.                                                         *)
FairSpec == /\ Spec
            /\ WF_vars(PruneCommand) /\ WF_vars(StartPruning)
            /\ WF_vars(\E n \in kept : Sync(n)) /\ WF_vars(PrimaryStep)
            /\ WF_vars(Tick)

-----------------------------------------------------------------------------
Crumbs == [begin : 0..(MaxNode + 1), at : Times]

TypeOK == /\ next \in 0..(MaxNode + 1)
          /\ kept \subseteq Nodes
          /\ stamp \in [Nodes -> Times \cup {NoFile}]
          /\ mirror \subseteq Nodes
          /\ bread \in Crumbs \cup {NoFile, Torn}
          /\ clock \in Times
          /\ pc \in ControlStates
          /\ crumb \in Crumbs
          /\ now \in Times
          /\ updated \in Crumbs
          /\ victims \subseteq Nodes \ {0}
          /\ trusted \in 0..(MaxNode + 1)
          /\ rootAt \in Times \cup {NoFile}
          /\ latest \in Times
          /\ setBacks \in 0..MaxSetBacks
          /\ crashes \in 0..MaxCrashes

(* "incoming snapshots are throttled to this rate" (README.md:92-95):       *)
(* however often prune-repository is run, whatever the timestamps say and   *)
(* the clocks do, n nodes beside the root take n intervals.                 *)
Throttled == trusted > 1 => rootAt + (trusted - 1) * MinGap <= latest

(* No node is trusted that claims to be older than one trusted before it    *)
(* (README.md:96-101).                                                      *)
TrustedInOrder == \A k \in 1..(trusted - 1) : \A j \in 0..k : stamp[j] <= stamp[k]

(* What the tree keeps of the trusted nodes is there, the path from the     *)
(* latest one to the root among it (RepositoryStructure.hpp:204-212), and   *)
(* nothing outlives its time: this holds also while victims are deleted and *)
(* after the breadcrumb file was cut short.                                 *)
KeepsTrusted == /\ \A k \in 0..(trusted - 1) : Outlives(k, trusted) => k \in mirror
                /\ \A k \in mirror : k < trusted => Outlives(k, trusted - 1)

(* The trusted nodes of the mirror are a history of their own, which takes  *)
(* the snapshots of the primary one by one, forgets each when its time has  *)
(* come, and never takes one back, whatever is copied from the primary      *)
(* while the primary prunes (README.md:84-101).                             *)
Mirror == INSTANCE BackupHistory WITH next    <- trusted,
                                      kept    <- {k \in mirror : k < trusted},
                                      archive <- <<>>

MirrorIsHistory == Mirror!Spec

(* Quarantined nodes "will never lead to the pruning of old snapshots"      *)
(* (CommandLineInterface.cpp:818-819): a file goes only for the sake of the *)
(* next node, when that one is there, is not older than the latest trusted  *)
(* one and has served its time.                                             *)
QuarantineNeverPrunes ==
  [][\A k \in mirror \ mirror' :
          /\ k # 0 /\ Demise(k) = crumb.begin
          /\ crumb.begin \in mirror
          /\ stamp[crumb.begin - 1] <= stamp[crumb.begin]
          /\ rootAt + crumb.begin * MinGap <= latest]_vars

(* The clock will not get as far as the end of the quarantine. *)
PastTheBound == bread \notin {NoFile, Torn} /\ bread.at + MinGap > MaxTime

(* What keeps node k in quarantine for ever: a breadcrumb file that was cut *)
(* short; an earlier node that the primary has pruned before it was copied, *)
(* since the loop of prune_repository() stops at a gap; a node up to k that *)
(* claims to be older than the one before it.                               *)
Lost(n) == n >= trusted /\ n \notin mirror \cup kept

StuckFor(k) == \/ bread = Torn /\ pc = "idle"
               \/ \E n \in 0..(k - 1) : Lost(n)
               \/ \E n \in 1..k : n < next /\ stamp[n] < stamp[n - 1]

(* Snapshots "are quarantined for such time until they can be replayed      *)
(* without exceeding the limit" (CommandLineInterface.cpp:816-817), and for *)
(* ever only for the reasons given: again and again there is a time when    *)
(* nothing on the mirror waits for anything else.                           *)
EventuallyTrusted ==
  []<>(\A k \in mirror : trusted > k \/ PastTheBound \/ StuckFor(k))

=============================================================================
