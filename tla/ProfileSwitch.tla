--------------------------- MODULE ProfileSwitch ---------------------------
(***************************************************************************)
(* Which profile is active (profiles/mod.rs, profiles/tasks.rs): a click on  *)
(* the Profiles page against the automatic switch on the network, across    *)
(* failures of the store and restarts of the bridge.                        *)
(*                                                                         *)
(* Every operation below but the network loop's own steps runs under        *)
(* switch_lock and awaits nothing else, so it is one step.  The store       *)
(* (profiles, the active flag, the manual choice) outlives a restart; what  *)
(* the loop has seen does not.                                              *)
(***************************************************************************)
EXTENDS Naturals, FiniteSets

CONSTANTS
  Profiles,          \* profile ids, numbered in the order of ORDER BY id
  Networks,          \* connection ids NetworkManager reports
  NoNet,             \* no active connection
  MaxNetChanges,     \* bound: network changes
  MaxSwitchEdits,    \* bound: clicks and edits on the Profiles page
  MaxSwitchFaults    \* bound: failures of the store and restarts

ASSUME SwitchAssumption ==
  /\ Profiles \subseteq Nat \ {0}
  /\ NoNet \notin Networks
  /\ MaxNetChanges \in Nat /\ MaxSwitchEdits \in Nat /\ MaxSwitchFaults \in Nat

VARIABLES
  profileRows, matchers,   \* the store: which profiles exist, and the networks each matches
  active, choice,    \* the store: the active profile (0: none) and the manual choice
  lastSettled, latest, choseThisRun,   \* last_settled, latest_network, chose_this_run
  watch, netFresh,      \* the watch channel: its value, and whether the loop has yet to see it
  loop, current,     \* where the auto-switch loop is, and the reading it works on
  netChanges, switchEdits, switchFaults,
  promise, settledSince, seen, acted   \* history: see the properties

storeVars   == <<profileRows, matchers, active, choice>>
seenVars    == <<lastSettled, latest, choseThisRun>>
loopVars    == <<watch, netFresh, loop, current>>
switchHistoryVars == <<promise, settledSince, seen, acted>>
switchVars  == <<storeVars, seenVars, loopVars, netChanges, switchEdits, switchFaults, switchHistoryVars>>

AnyNet == Networks \cup {NoNet}
Choice == [held : BOOLEAN, profile : Profiles \cup {0}, network : AnyNet]
NoChoice == [held |-> FALSE, profile |-> 0, network |-> NoNet]

-----------------------------------------------------------------------------
(* The store *)

\* matcher::find_matching_profile over list_profiles, which is ordered by id; 0 for none
FirstMatch(net) ==
  LET matching == {p \in profileRows : net \in matchers[p]}
  IN  IF matching = {} THEN 0 ELSE CHOOSE p \in matching : \A q \in matching : p <= q

\* Mutant: the last settled network before the newest seen
ChoiceNetworkSettled == IF lastSettled # NoNet THEN lastSettled ELSE latest

\* save_manual_choice's network: the newest seen, else the last settled
ChoiceNetwork == IF latest # NoNet THEN latest ELSE lastSettled

StoreFails == switchFaults < MaxSwitchFaults /\ switchFaults' = switchFaults + 1
StoreWorks == UNCHANGED switchFaults
UserActs == switchEdits < MaxSwitchEdits /\ switchEdits' = switchEdits + 1

-----------------------------------------------------------------------------
(* The Profiles page *)

\* save_manual_choice: the click counts for this run even when it cannot be saved
SaveManualChoice(p) ==
  /\ choseThisRun' = TRUE
  /\ \/ /\ StoreWorks
        /\ choice' = [held |-> TRUE, profile |-> p, network |-> ChoiceNetwork]
        /\ promise' = [held |-> TRUE, profile |-> p, network |-> seen]
     \/ StoreFails /\ UNCHANGED choice /\ promise' = NoChoice
  /\ settledSince' = {}

\* activate
Activate(p) ==
  /\ UserActs
  /\ p \in profileRows
  /\ active' = p
  /\ SaveManualChoice(p)
  /\ acted' = FALSE
  /\ UNCHANGED <<profileRows, matchers, lastSettled, latest, loopVars, netChanges, seen>>

\* deactivate: the choice of no profile
Deactivate ==
  /\ UserActs
  /\ active' = 0
  /\ SaveManualChoice(0)
  /\ acted' = FALSE
  /\ UNCHANGED <<profileRows, matchers, lastSettled, latest, loopVars, netChanges, seen>>

\* create_profile, refused for an id in use; update_profile, which keeps the active flag
SaveProfile(p, nets) ==
  /\ UserActs
  /\ profileRows' = profileRows \cup {p}
  /\ matchers' = [matchers EXCEPT ![p] = nets]
  /\ acted' = FALSE
  /\ UNCHANGED <<active, choice, seenVars, loopVars, netChanges, switchFaults,
                 promise, settledSince, seen>>
CreateProfile(p, nets) == p \notin profileRows /\ SaveProfile(p, nets)
UpdateProfile(p, nets) == p \in profileRows /\ SaveProfile(p, nets)

\* delete_profile: the row goes first, then its choice, which may fail and stay
DeleteProfile(p) ==
  /\ UserActs
  /\ p \in profileRows
  /\ profileRows' = profileRows \ {p}
  /\ active' = IF active = p THEN 0 ELSE active
  /\ \/ StoreWorks /\ choice' = IF choice.held /\ choice.profile = p THEN NoChoice ELSE choice
     \/ StoreFails /\ UNCHANGED choice
  /\ promise' = IF promise.profile = p THEN NoChoice ELSE promise
  /\ acted' = FALSE
  /\ UNCHANGED <<matchers, seenVars, loopVars, netChanges, settledSince, seen>>

-----------------------------------------------------------------------------
(* The network loop: spawn_auto_switch_with *)

\* NetworkManagerWatcher's poll found another connection (a failed poll keeps the last)
NetworkChanges(net) ==
  /\ netChanges < MaxNetChanges /\ netChanges' = netChanges + 1
  /\ net # watch
  /\ watch' = net /\ netFresh' = TRUE
  /\ UNCHANGED <<storeVars, seenVars, loop, current, switchEdits, switchFaults, switchHistoryVars>>

\* the loop's task begins: subscribed already, it reads the value
LoopStarts ==
  /\ loop = "start"
  /\ current' = watch /\ loop' = "note"
  /\ UNCHANGED <<storeVars, seenVars, watch, netFresh, netChanges, switchEdits, switchFaults, switchHistoryVars>>

\* note_network: no network is ignored
NoteNetwork ==
  /\ loop = "note"
  /\ latest' = IF current = NoNet THEN latest ELSE current
  /\ seen' = IF current = NoNet THEN seen ELSE current
  /\ loop' = "settle"
  /\ UNCHANGED <<storeVars, lastSettled, choseThisRun, watch, netFresh, current, netChanges,
                 switchEdits, switchFaults, promise, settledSince, acted>>

\* rx.changed() before the settle time is over, or once the network was acted on
ReadAgain ==
  /\ loop \in {"settle", "idle"} /\ netFresh
  /\ current' = watch /\ netFresh' = FALSE /\ loop' = "note"
  /\ UNCHANGED <<storeVars, seenVars, watch, netChanges, switchEdits, switchFaults, switchHistoryVars>>

\* the settle time is over
Settles ==
  /\ loop = "settle" /\ ~netFresh
  /\ loop' = "observe"
  /\ UNCHANGED <<storeVars, seenVars, watch, netFresh, current, netChanges, switchEdits,
                 switchFaults, switchHistoryVars>>

\* a choice made with no network known, in this run, is kept by the first that settles
KeepChoice(net) ==
  /\ choice.held /\ choice.network = NoNet /\ choseThisRun
  /\ choice' = [choice EXCEPT !.network = net]
  /\ promise' = [promise EXCEPT !.network = net]
  /\ acted' = FALSE
  /\ StoreWorks /\ UNCHANGED active

\* the choice was made on this network
HoldChoice(net) ==
  /\ choice.held /\ choice.network = net
  /\ acted' = FALSE
  /\ StoreWorks /\ UNCHANGED <<choice, active, promise>>

\* whatever was chosen was chosen elsewhere: the first profile that matches is activated
Switch(net) ==
  /\ choice.held => choice.network # net /\ ~(choice.network = NoNet /\ choseThisRun)
  /\ choice' = NoChoice
  /\ active' = IF FirstMatch(net) = 0 THEN active ELSE FirstMatch(net)
  /\ acted' = TRUE
  /\ StoreWorks /\ UNCHANGED promise

\* a read or a write of the store fails: before the choice is cleared, or after
GiveUp(net) ==
  /\ \/ UNCHANGED choice
     \/ choice.network # net /\ ~(choice.network = NoNet /\ choseThisRun) /\ choice' = NoChoice
  /\ promise' = IF promise.network = NoNet THEN NoChoice ELSE promise
  /\ acted' = FALSE
  /\ StoreFails /\ UNCHANGED active

\* on_network_observed: the network counts as acted on before the store is read
OnNetworkObserved ==
  /\ loop = "observe" /\ loop' = "idle"
  /\ settledSince' = settledSince \cup ({current} \ {NoNet})
  /\ \/ /\ current \in {NoNet, lastSettled}
        /\ UNCHANGED <<active, choice, lastSettled, switchFaults, promise, acted>>
     \/ /\ current \notin {NoNet, lastSettled}
        /\ lastSettled' = current
        /\ KeepChoice(current) \/ HoldChoice(current) \/ Switch(current) \/ GiveUp(current)
  /\ UNCHANGED <<profileRows, matchers, latest, choseThisRun, watch, netFresh, current, netChanges,
                 switchEdits, seen>>

\* the bridge starts again: ProfilesManager::new, and a watcher that may not have read yet
RestartBridge ==
  /\ StoreFails
  /\ lastSettled' = NoNet /\ latest' = NoNet /\ choseThisRun' = FALSE
  /\ watch' \in {watch, NoNet} /\ netFresh' = FALSE
  /\ loop' = "start" /\ current' = NoNet
  /\ promise' = IF promise.network = NoNet THEN NoChoice ELSE promise
  /\ seen' = NoNet /\ acted' = FALSE
  /\ UNCHANGED <<storeVars, netChanges, switchEdits, settledSince>>

-----------------------------------------------------------------------------
\* the bridge starts on the profiles of earlier runs
SwitchInit ==
  /\ profileRows \in SUBSET Profiles /\ matchers \in [Profiles -> SUBSET Networks]
  /\ active \in profileRows \cup {0} /\ choice = NoChoice
  /\ lastSettled = NoNet /\ latest = NoNet /\ choseThisRun = FALSE
  /\ watch = NoNet /\ netFresh = FALSE
  /\ loop = "start" /\ current = NoNet
  /\ netChanges = 0 /\ switchEdits = 0 /\ switchFaults = 0
  /\ promise = NoChoice /\ settledSince = {} /\ seen = NoNet /\ acted = FALSE

LoopSteps == LoopStarts \/ NoteNetwork \/ ReadAgain \/ Settles \/ OnNetworkObserved

SwitchNext ==
  \/ \E p \in Profiles : Activate(p) \/ DeleteProfile(p)
  \/ \E p \in Profiles, nets \in SUBSET Networks : CreateProfile(p, nets) \/ UpdateProfile(p, nets)
  \/ Deactivate
  \/ \E net \in AnyNet : NetworkChanges(net)
  \/ LoopSteps
  \/ RestartBridge

SwitchSpec == SwitchInit /\ [][SwitchNext]_switchVars

-----------------------------------------------------------------------------
(* Properties *)

\* Values are of their types, and the active profile is one that exists.
SwitchTypeOK ==
  /\ profileRows \subseteq Profiles /\ matchers \in [Profiles -> SUBSET Networks]
  /\ active \in profileRows \cup {0} /\ choice \in Choice
  /\ lastSettled \in AnyNet /\ latest \in AnyNet /\ choseThisRun \in BOOLEAN
  /\ watch \in AnyNet /\ netFresh \in BOOLEAN
  /\ loop \in {"start", "note", "settle", "observe", "idle"} /\ current \in AnyNet
  /\ netChanges \in 0..MaxNetChanges /\ switchEdits \in 0..MaxSwitchEdits
  /\ switchFaults \in 0..MaxSwitchFaults
  /\ promise \in Choice /\ settledSince \subseteq Networks /\ seen \in AnyNet /\ acted \in BOOLEAN

\* A click that was saved stands, over restarts too, for as long as no network settles
\* other than the one the loop had seen when it was made (on_network_observed's doc).
\* One made before any network was seen stands on the first that settles in its run.
ChoiceStands ==
  promise.held /\ settledSince \subseteq {promise.network} => active = promise.profile

\* Once the loop acted on a network with no choice in the way, and until the next
\* click, edit or fault, the profile of that network is the active one.
NetworkDecides ==
  acted => FirstMatch(lastSettled) \in {0, active} /\ ~choice.held

\* The active profile is the one the user chose, for as long as that stands, or the network's.
ProfileIsRight == ChoiceStands /\ NetworkDecides


\* A network that stays is acted on in the end, whatever changed before it: no reading
\* is lost between the timer, the watch channel and the wait after an observation.
LastNetworkSettles == \A net \in Networks : <>[](watch = net) => <>[](lastSettled = net)
=============================================================================
