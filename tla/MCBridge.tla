----------------------------- MODULE MCBridge -----------------------------
(***************************************************************************)
(* What is shown of the daemon, for TLC: the bridge's rule list, tray,      *)
(* prompt slot and hit counts, and the desktop application's link to it and *)
(* learning window.  They share no state here: a behaviour is one of Parts, *)
(* chosen at the start, and the others rest as they began.                  *)
(***************************************************************************)
EXTENDS MCRulesSync, TrayState, PromptSlot, RuleHits, MCLearningWindow, GuiLink

CONSTANT Parts

ASSUME PartsAssumption == Parts \subseteq {"sync", "tray", "slot", "hits", "learning", "link"}

\* A bridge that knows it all, an old one and one in between
ThreeBridges == <<{"appBound", "decideLater"}, {}, {"decideLater"}>>

VARIABLE part

-----------------------------------------------------------------------------
\* The component of that name begins, or rests in one of its initial states
BridgeInit ==
  /\ part \in Parts
  /\ Init /\ (part # "sync" => memory = NoRules)
  /\ TrayInit
  /\ SlotInit
  /\ HitsInit
  /\ LearningInit /\ (part # "learning" => settingsFile.mode = "unset")
  /\ GuiLinkInit

BridgeNext ==
  \/ part = "sync" /\ Next
     /\ UNCHANGED <<part, allTrayVars, slotVars, hitVars, learningVars, guiLinkVars>>
  \/ part = "tray" /\ TrayNext
     /\ UNCHANGED <<part, vars, slotVars, hitVars, learningVars, guiLinkVars>>
  \/ part = "slot" /\ SlotNext
     /\ UNCHANGED <<part, vars, allTrayVars, hitVars, learningVars, guiLinkVars>>
  \/ part = "hits" /\ HitsNext
     /\ UNCHANGED <<part, vars, allTrayVars, slotVars, learningVars, guiLinkVars>>
  \/ part = "learning" /\ LearningNext
     /\ UNCHANGED <<part, vars, allTrayVars, slotVars, hitVars, guiLinkVars>>
  \/ part = "link" /\ GuiLinkNext
     /\ UNCHANGED <<part, vars, allTrayVars, slotVars, hitVars, learningVars>>

bridgeVars == <<part, vars, allTrayVars, slotVars, hitVars, learningVars, guiLinkVars>>

BridgeSpec == BridgeInit /\ [][BridgeNext]_bridgeVars

\* Types of the part that runs.
BridgeTypeOK ==
  CASE part = "sync" -> TypeOK [] part = "tray" -> TrayTypeOK [] part = "slot" -> SlotTypeOK
    [] part = "hits" -> HitsTypeOK [] OTHER -> TRUE
=============================================================================
