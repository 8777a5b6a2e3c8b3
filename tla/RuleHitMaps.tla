----------------------------- MODULE RuleHitMaps -----------------------------
(***************************************************************************)
(* Which rule each hit is counted for (bridge cache/rule_hits.rs count,     *)
(* adopt_snapshot, forget, restore, to_saved): three maps from rule names   *)
(* to counts, of listed rules, of names waiting for a rule list, and of     *)
(* what an earlier run saved.  A count of 0 is an absent entry.  `lossy`    *)
(* is "a gap was noted"; whether one is needed for what the daemon lost is  *)
(* RuleHits.                                                                *)
(***************************************************************************)
EXTENDS Naturals, FiniteSets

CONSTANTS
  HitNames,          \* rule names
  MaxTracked,        \* MAX_TRACKED_RULES
  SideMax,           \* SIDE_MAP_MAX
  MaxMapHits, MaxMapRuns

ASSUME MapsAssumption == IsFiniteSet(HitNames) /\ MaxTracked \in Nat

VARIABLES
  mainMap, sideMap, restoredMap,
  listed,            \* the rule list's names; nothing before the first list
  lossy,             \* a gap was noted since the counts began
  mapRuns,
  owed               \* history: the hits of each name, since it was last forgotten or left out of a list

maps == <<mainMap, sideMap, restoredMap>>
mapVars == <<maps, listed, lossy, mapRuns, owed>>

Empty == [n \in HitNames |-> 0]
Size(f) == Cardinality({n \in HitNames : f[n] > 0})
HasRoom(f, n, limit) == f[n] > 0 \/ Size(f) < limit
Held(n) == mainMap[n] + sideMap[n] + restoredMap[n]

-----------------------------------------------------------------------------

CountListed(n) ==
  IF HasRoom(mainMap, n, MaxTracked)
  THEN /\ mainMap' = [mainMap EXCEPT ![n] = @ + sideMap[n] + 1]
       /\ sideMap' = [sideMap EXCEPT ![n] = 0] /\ UNCHANGED <<restoredMap, lossy>>
  ELSE lossy' = TRUE /\ UNCHANGED maps

CountWaiting(n) ==
  IF HasRoom(sideMap, n, SideMax)
  THEN sideMap' = [sideMap EXCEPT ![n] = @ + 1] /\ UNCHANGED <<mainMap, restoredMap, lossy>>
  ELSE lossy' = TRUE /\ UNCHANGED maps

HitIsCounted(n) ==
  /\ owed[n] < MaxMapHits /\ owed' = [owed EXCEPT ![n] = @ + 1]
  /\ IF n \in listed THEN CountListed(n) ELSE CountWaiting(n)
  /\ UNCHANGED <<listed, mapRuns>>

\* The entries of the main map, and those that join it while there is room (in the hash
\* map's order: any)
AdoptedInto(new, kept) ==
  LET joins == {n \in new : mainMap[n] = 0 /\ sideMap[n] + restoredMap[n] > 0}
      stays == {n \in new : mainMap[n] > 0}
  IN  /\ kept \subseteq joins
      /\ Cardinality(stays) + Cardinality(kept) <= MaxTracked
      /\ kept # joins => Cardinality(stays) + Cardinality(kept) = MaxTracked
      /\ mainMap' = [n \in HitNames |-> IF n \in stays \cup kept THEN Held(n) ELSE 0]
      /\ lossy' = (lossy \/ kept # joins \/ \E n \in HitNames : mainMap[n] > 0 /\ n \notin new)

\* adopt_snapshot, with the rule list that was committed
ListIsAdopted(new) ==
  /\ \E kept \in SUBSET HitNames : AdoptedInto(new, kept)
  /\ sideMap' = Empty /\ restoredMap' = Empty /\ listed' = new
  /\ owed' = [n \in HitNames |-> IF n \in new THEN owed[n] ELSE 0]
  /\ UNCHANGED <<mapRuns>>

ForgetAll(n) ==
  /\ mainMap' = [mainMap EXCEPT ![n] = 0] /\ sideMap' = [sideMap EXCEPT ![n] = 0]
  /\ restoredMap' = [restoredMap EXCEPT ![n] = 0]

\* forget, after the delete that took the rule off the list
RuleIsForgotten(n) ==
  /\ ForgetAll(n) /\ listed' = listed \ {n} /\ owed' = [owed EXCEPT ![n] = 0]
  /\ UNCHANGED <<lossy, mapRuns>>

\* A rule is added to a list that was adopted
RuleIsListed(n) ==
  /\ listed # {} /\ listed' = listed \cup {n}
  /\ UNCHANGED <<maps, lossy, mapRuns, owed>>

\* withdraw: no list until the next one, the counts stay
ListIsWithdrawn ==
  listed # {} /\ listed' = {} /\ UNCHANGED <<maps, lossy, mapRuns, owed>>

\* Mutant: what still waits for a list is not saved
SavesMainOnly(names) == names = {n \in HitNames : mainMap[n] > 0}

\* to_saved: the names whose counts are saved, the main map's first, then those that wait,
\* to the limit
Saves(names) ==
  LET all == {n \in HitNames : Held(n) > 0}
      main == {n \in HitNames : mainMap[n] > 0}
  IN  /\ names \subseteq all /\ Cardinality(names) <= MaxTracked
      /\ names = all \/ Cardinality(names) = MaxTracked
      /\ main \subseteq names \/ names \subseteq main

\* The bridge stops and starts again: when counts were cut off no baseline was saved, and
\* the restore is a gap
BridgeRestarts ==
  /\ mapRuns < MaxMapRuns /\ mapRuns' = mapRuns + 1
  /\ \E names \in SUBSET HitNames :
       /\ Saves(names)
       /\ restoredMap' = [n \in HitNames |-> IF n \in names THEN Held(n) ELSE 0]
       /\ lossy' = (lossy \/ Cardinality({n \in HitNames : Held(n) > 0}) > MaxTracked)
  /\ mainMap' = Empty /\ sideMap' = Empty /\ listed' = {}
  /\ UNCHANGED owed

MapsInit ==
  /\ mainMap = Empty /\ sideMap = Empty /\ restoredMap = Empty /\ listed = {}
  /\ lossy = FALSE /\ mapRuns = 1 /\ owed = Empty

MapsNext ==
  \/ \E n \in HitNames : HitIsCounted(n) \/ RuleIsForgotten(n) \/ RuleIsListed(n)
  \/ \E new \in SUBSET HitNames : ListIsAdopted(new)
  \/ ListIsWithdrawn \/ BridgeRestarts

MapsSpec == MapsInit /\ [][MapsNext]_mapVars

-----------------------------------------------------------------------------
(* Properties *)

\* Values are of their types, and the maps keep their limits.
MapsTypeOK ==
  /\ {mainMap, sideMap, restoredMap} \subseteq [HitNames -> Nat] /\ listed \subseteq HitNames
  /\ Size(mainMap) <= MaxTracked /\ Size(sideMap) <= SideMax /\ Size(restoredMap) <= MaxTracked
  /\ lossy \in BOOLEAN

\* No hit vanishes unseen: unless a gap was noted, every hit of a name that was not deleted
\* or left out of a list is in one of the three maps, through lists, withdrawals and
\* restarts.
NoHitVanishes == \/ lossy
                 \/ \A n \in HitNames : Held(n) = owed[n]

\* A rule that is deleted takes its count with it: a later rule of the same name starts
\* from nothing (forget clears all three maps).
NoHitOfAnother == \A n \in HitNames : Held(n) <= owed[n]

\* Every hit stays with the rule it was counted for, through lists, deletes and restarts.
HitsStay == NoHitVanishes /\ NoHitOfAnother
=============================================================================
