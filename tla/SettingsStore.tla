---------------------------- MODULE SettingsStore ----------------------------
(***************************************************************************)
(* What the settings of the clock promise, without feeds, displays or      *)
(* blocking: one setting changes at a time, the changed settings are then  *)
(* saved as a whole, a power failure takes nothing back that was saved,    *)
(* and what is restored is a complete record that was once live - or the   *)
(* content of an erased sector, if the power failed inside a save.         *)
(***************************************************************************)
CONSTANTS Config,   \* the records of settings
          Erased,   \* the one an erased sector reads as
          NoConfig  \* the one live before anything is restored

VARIABLES settings, stored, phase

vars == <<settings, stored, phase>>

OneFieldDiffers(c, d) ==
  \E f \in DOMAIN c : c[f] # d[f] /\ \A g \in DOMAIN c \ {f} : c[g] = d[g]

(* An earlier life of the clock may have saved settings.                    *)
Init == settings = NoConfig /\ stored \in Config /\ phase = "off"

Restore ==
  /\ phase = "off"
  /\ settings' = stored
  /\ phase' = "saved"
  /\ UNCHANGED stored

Change ==
  /\ phase = "saved"
  /\ settings' \in Config
  /\ OneFieldDiffers(settings, settings')
  /\ phase' = "changed"
  /\ UNCHANGED stored

BeginSave ==
  /\ phase = "changed"
  /\ stored' = Erased
  /\ phase' = "saving"
  /\ UNCHANGED settings

EndSave ==
  /\ phase = "saving"
  /\ stored' = settings
  /\ phase' = "saved"
  /\ UNCHANGED settings

PowerLoss ==
  /\ phase' = "off"
  /\ settings' = NoConfig
  /\ UNCHANGED stored

Next == Restore \/ Change \/ BeginSave \/ EndSave \/ PowerLoss

Spec == Init /\ [][Next]_vars
=============================================================================
