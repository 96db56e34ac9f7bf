----------------------------- MODULE MCDesktop ------------------------------
(***************************************************************************)
(* The program on its machine, in one run of TLC: registration as the task *)
(* manager, the keyboard hook, the launch, the settings page, the start-up *)
(* entries and their measured impact, setup with its elevated helper, the  *)
(* window of setup and its archive. They share no state here, so each      *)
(* behaviour follows one of them (the focus) while the others stay in      *)
(* their initial states: the run visits the sum of their state spaces and  *)
(* not the product.                                                        *)
(***************************************************************************)
EXTENDS TaskmgrReplacement, HotkeyHook, Launch, SettingsPage, StartupItems,
        Setup

\* The ways to start the program that are told apart.
MCLaunchFlags == {{}, {"minimized"}, {"hotkey"}, {"hotkey", "minimized"}, {"verb"}, {"unresponsive"}}

VARIABLE focus

vars == <<focus, regVars, hkVars, launchVars, settingsPageVars, startupVars, setupVars, wizardVars, payloadVars>>

Init ==
    /\ focus \in {"replacement", "hotkey", "launch", "settings", "startup", "setup", "wizard", "payload"}
    /\ (focus # "replacement" => reg = "absent")
    /\ RegInit
    /\ (focus # "hotkey" => registered = FALSE /\ armed = FALSE)
    /\ HotkeyInit
    /\ (focus # "launch" => hold = "none" /\ redirectMark = "none" /\ copy = "absent" /\ broker = FALSE /\ policy = FALSE)
    /\ LaunchInit
    /\ (focus # "settings" => ifeo = "off" /\ core = "absent")
    /\ SettingsPageInit
    /\ (focus # "startup" => half = "items")
    /\ StartupInit
    /\ (focus # "setup" => debugger = "none")
    /\ SetupInit
    /\ (focus # "wizard" => page = "options" /\ opts = [uninstall |-> TRUE, shortcuts |-> TRUE, launch |-> FALSE] /\ existing = FALSE)
    /\ WizardInit
    /\ (focus # "payload" => archived = "no" /\ blobEnd = 0 /\ given = <<>>)
    /\ PayloadInit

InReplacement(A) == focus = "replacement" /\ A /\ UNCHANGED <<focus, hkVars, launchVars, settingsPageVars, startupVars, setupVars, wizardVars, payloadVars>>
InHotkey(A) == focus = "hotkey" /\ A /\ UNCHANGED <<focus, regVars, launchVars, settingsPageVars, startupVars, setupVars, wizardVars, payloadVars>>
InLaunch(A) == focus = "launch" /\ A /\ UNCHANGED <<focus, regVars, hkVars, settingsPageVars, startupVars, setupVars, wizardVars, payloadVars>>
InSettings(A) == focus = "settings" /\ A /\ UNCHANGED <<focus, regVars, hkVars, launchVars, startupVars, setupVars, wizardVars, payloadVars>>
InStartup(A) == focus = "startup" /\ A /\ UNCHANGED <<focus, regVars, hkVars, launchVars, settingsPageVars, setupVars, wizardVars, payloadVars>>
InSetup(A) == focus = "setup" /\ A /\ UNCHANGED <<focus, regVars, hkVars, launchVars, settingsPageVars, startupVars, wizardVars, payloadVars>>
InWizard(A) == focus = "wizard" /\ A /\ UNCHANGED <<focus, regVars, hkVars, launchVars, settingsPageVars, startupVars, setupVars, payloadVars>>
InPayload(A) == focus = "payload" /\ A /\ UNCHANGED <<focus, regVars, hkVars, launchVars, settingsPageVars, startupVars, setupVars, wizardVars>>

Next ==
    \/ InReplacement(RegNext)
    \/ InHotkey(HotkeyNext)
    \/ InLaunch(LaunchNext)
    \/ InSettings(SettingsPageNext)
    \/ InStartup(StartupNext)
    \/ InSetup(SetupNext)
    \/ InWizard(WizardNext)
    \/ InPayload(PayloadNext)

Spec == Init /\ [][Next]_vars
=============================================================================
