----------------------------- MODULE OpticalModel -----------------------------
(***************************************************************************)
(* The optical model of the simulator (catkit2/simulator/optical_model.py): *)
(* the wavefronts in a plane follow from those in the planes it depends on  *)
(* and from the optical element in between, and are cached until the plane  *)
(* is purged.  Wavefronts are abstracted to what they were computed from:   *)
(* the settings of all the elements on the way.                             *)
(***************************************************************************)
EXTENDS Integers

CONSTANTS
  Planes,
  Dependencies,     \* _plane_dependencies: for each plane, the planes it depends on
  Settings          \* what an element can be set to

ASSUME ModelAssumption == Dependencies \in [Planes -> SUBSET Planes]

\* The planes follow one another: get_wavefronts would never return from a cycle.
ASSUME AcyclicAssumption ==
  \A S \in SUBSET Planes : S # {} => \E p \in S : Dependencies[p] \cap S = {}

VARIABLES
  element,          \* the setting of the element in front of each plane
  cache             \* _cached_wavefronts

modelVars == <<element, cache>>

\* The wavefronts of a plane that is not in the cache: no settings at all.
None == <<>>

\* The planes before a plane, itself included.
Upstream[p \in Planes] == {p} \cup UNION {Upstream[d] : d \in Dependencies[p]}
Downstream(p) == {q \in Planes : p \in Upstream[q]}

\* What the wavefronts in a plane are, whatever the cache holds.
TrueWavefronts(p) == [q \in Upstream[p] |-> element[q]]

ModelTypeOK ==
  /\ element \in [Planes -> Settings]
  /\ \A p \in Planes : cache[p] # None => cache[p] \in [Upstream[p] -> Settings]

ModelInit ==
  /\ element \in {[p \in Planes |-> s] : s \in Settings}
  /\ cache = [p \in Planes |-> None]

-----------------------------------------------------------------------------
\* Mutant: the planes after it are not purged.
PurgeOnly(p) == cache' = [cache EXCEPT ![p] = None]

\* purge_plane, with its recursion into the dependents.
PurgePlane(p) ==
  cache' = [q \in Planes |-> IF q \in Downstream(p) THEN None ELSE cache[q]]

\* An element is changed, and its plane purged, as actuate_dm and update_atmosphere do.
Actuate(p, setting) ==
  /\ element' = [element EXCEPT ![p] = setting]
  /\ PurgePlane(p)

\* get_wavefronts: what is in the cache, and otherwise propagated from what it returns
\* for the planes before.
Get[p \in Planes] ==
  IF cache[p] # None THEN cache[p]
  ELSE [q \in Upstream[p] |->
          IF q = p THEN element[p]
          ELSE Get[CHOOSE d \in Dependencies[p] : q \in Upstream[d]][q]]

\* The planes that are computed on the way to p.
Computed[p \in Planes] ==
  IF cache[p] # None THEN {} ELSE {p} \cup UNION {Computed[d] : d \in Dependencies[p]}

\* The cache once the wavefronts in p have been asked for.
CacheAfter(p) ==
  cache' = [q \in Planes |-> IF q \in Computed[p] THEN Get[q] ELSE cache[q]]

-----------------------------------------------------------------------------
(* Properties                                                              *)

\* A cached wavefront is what would be computed now.
CacheCurrent == \A p \in Planes : cache[p] # None => cache[p] = TrueWavefronts(p)
==============================================================================
