---------------------------- MODULE Installation ----------------------------
(***************************************************************************)
(* The installation folder with everyone who works in it: the self-update  *)
(* of Updater, the setup script install.ps1, which lays the files down one *)
(* by one over what is there, and uninstall.ps1, which takes the shortcuts *)
(* and the entry in Settings > Apps away and leaves the folder to a        *)
(* detached command that tries to remove it ten times, a second apart.     *)
(***************************************************************************)
EXTENDS Updater, Sequences

CONSTANTS
  MaxSetups,     \* bound: setups in one behaviour
  MaxRemovals,   \* bound: uninstallations in one behaviour
  MaxTries       \* bound: attempts at the folder (ten in the script)

ASSUME InstallationAssumption ==
  MaxSetups \in Nat /\ MaxRemovals \in Nat /\ MaxTries \in Nat \ {0}

VARIABLES
  setup,       \* the step install.ps1 is at
  source,      \* the release in the folder or archive it copies from
  rest,        \* uninstall.ps1, config, assets and docs are in the folder
  shortcut,    \* there is a shortcut to the program
  listed,      \* the program is listed in Settings > Apps
  removal,     \* the step uninstall.ps1 is at, and its detached command
  tries,       \* attempts at the folder that are left
  setups, removals,   \* how many were begun
  hurried,     \* history: a setup and a removal were at work together
  mixed,       \* history: so were this setup and an installer
  stuck        \* history: what of the two a removal tried to take away and
               \* could not

setupVars == <<setup, source, rest, shortcut, listed, removal, tries, setups, removals, hurried,
               mixed, stuck>>

allVars == <<vars, setupVars>>

(* What the scripts leave alone of the self-update.                        *)
othersVars == <<served, installerVars, countVars, replaced>>

-----------------------------------------------------------------------------

(* Mutant: the program is listed before it is there.                       *)
ListedFirst == <<"register", "program", "copy", "rest", "shortcuts", "info">>

(* Invoke-Install, once there are a Python and a source.                   *)
InstallSteps == <<"program", "copy", "rest", "shortcuts", "register", "info">>

StepAfter(step) ==
  LET n == CHOOSE k \in DOMAIN InstallSteps : InstallSteps[k] = step
  IN  InstallSteps[n + 1]

(* The program with its shortcuts and its entry, or unpacked by hand.      *)
InstallationInit ==
  /\ Init
  /\ setup = "none" /\ source = 0 /\ setups = 0
  /\ rest = TRUE /\ listed \in BOOLEAN /\ shortcut = listed
  /\ removal = "none" /\ tries = 0 /\ removals = 0
  /\ hurried = FALSE /\ mixed = FALSE /\ stuck = {}

FolderThere == rest \/ \E name \in Names : at[name] # NoFile

SomeInstalls == \E i \in Installers : pc[i] \in Swapping \cup {"installed"}

-----------------------------------------------------------------------------
(* install.ps1.  Any step may throw and nothing is undone.                 *)

(* A Python is found or installed, and a source: the folder the script is  *)
(* in, of whatever age, or the archive of a branch.                        *)
BeginSetup(release) ==
  /\ setup = "none"
  /\ setups < MaxSetups
  /\ setup' = Head(InstallSteps) /\ source' = release /\ setups' = setups + 1
  /\ hurried' = (hurried \/ removal # "none")
  /\ mixed' = SomeInstalls
  /\ UNCHANGED <<vars, rest, shortcut, listed, removal, tries, removals, stuck>>

SetupGoesOn == setup' = StepAfter(setup)

(* Copy-Item -Force empties the file that is there, or makes one.          *)
OpenProgram ==
  /\ setup = "program"
  /\ \/ at.target # NoFile /\ disk' = [disk EXCEPT ![at.target] = Partial] /\ UNCHANGED at
     \/ /\ at.target = NoFile
        /\ \E f \in Free :
             /\ \A g \in Free : f <= g
             /\ at' = [at EXCEPT !.target = f]
             /\ disk' = [disk EXCEPT ![f] = Partial]
  /\ overlap' = TRUE
  /\ SetupGoesOn
  /\ UNCHANGED <<othersVars, source, rest, shortcut, listed, removal, tries, setups, removals,
                 hurried, mixed, stuck>>

CopyProgram ==
  /\ setup = "copy"
  /\ \E left \in Written(source, disk[at.target]) : disk' = [disk EXCEPT ![at.target] = left]
  /\ SetupGoesOn
  /\ UNCHANGED <<othersVars, at, overlap, source, rest, shortcut, listed, removal, tries, setups,
                 removals, hurried, mixed, stuck>>

(* The other files and folders.  The program is whole again if nobody else *)
(* was at work meanwhile.                                                  *)
CopyRest ==
  /\ setup = "rest"
  /\ FolderThere
  /\ rest' = TRUE
  /\ overlap' = (overlap /\ (hurried \/ mixed))
  /\ SetupGoesOn
  /\ UNCHANGED <<othersVars, fileVars, source, shortcut, listed, removal, tries, setups, removals,
                 hurried, mixed, stuck>>

(* Install-Shortcuts, unless they were not wanted.                         *)
InstallShortcuts ==
  /\ setup = "shortcuts"
  /\ \/ UNCHANGED <<shortcut, stuck>>
     \/ shortcut' = TRUE /\ stuck' = stuck \ {"shortcut"}
  /\ SetupGoesOn
  /\ UNCHANGED <<vars, source, rest, listed, removal, tries, setups, removals, hurried, mixed>>

RegisterApp ==
  /\ setup = "register"
  /\ listed' = TRUE /\ stuck' = stuck \ {"entry"}
  /\ SetupGoesOn
  /\ UNCHANGED <<vars, source, rest, shortcut, removal, tries, setups, removals, hurried, mixed>>

SetupEnds == setup' = "none" /\ source' = 0 /\ mixed' = FALSE

WriteInstallInfo ==
  /\ setup = "info"
  /\ SetupEnds
  /\ UNCHANGED <<vars, rest, shortcut, listed, removal, tries, setups, removals, hurried, stuck>>

(* A copy that fails leaves a file that is empty or cut short.             *)
SetupThrows ==
  /\ setup # "none"
  /\ SetupEnds
  /\ \/ UNCHANGED disk
     \/ setup = "copy" /\ disk' = [disk EXCEPT ![at.target] = Garbled]
  /\ UNCHANGED <<othersVars, at, overlap, rest, shortcut, listed, removal, tries, setups,
                 removals, hurried, stuck>>

-----------------------------------------------------------------------------
(* uninstall.ps1.  It is started from the folder, which must hold the      *)
(* program.                                                                *)

BeginRemoval ==
  /\ removal = "none"
  /\ removals < MaxRemovals
  /\ rest /\ at.target # NoFile
  /\ removal' = "shortcuts" /\ removals' = removals + 1
  /\ hurried' = (hurried \/ setup # "none")
  /\ UNCHANGED <<vars, setup, source, rest, shortcut, listed, tries, setups, mixed, stuck>>

(* Under $ErrorActionPreference = "SilentlyContinue" a Remove-Item that    *)
(* fails leaves its item, and the script goes on.                          *)
RemoveShortcuts ==
  /\ removal = "shortcuts"
  /\ \/ shortcut' = FALSE /\ stuck' = stuck \ {"shortcut"}
     \/ shortcut /\ stuck' = stuck \cup {"shortcut"} /\ UNCHANGED shortcut
  /\ removal' = "entry"
  /\ UNCHANGED <<vars, setup, source, rest, listed, tries, setups, removals, hurried, mixed>>

(* "has been removed.", it says, and leaves the folder to the detached     *)
(* command.                                                                *)
RemoveEntry ==
  /\ removal = "entry"
  /\ \/ listed' = FALSE /\ stuck' = stuck \ {"entry"}
     \/ listed /\ stuck' = stuck \cup {"entry"} /\ UNCHANGED listed
  /\ removal' = "folder" /\ tries' = MaxTries
  /\ UNCHANGED <<vars, setup, source, rest, shortcut, setups, removals, hurried, mixed>>

Open(f) == \/ \E i \in Installers : handle[i] = f
           \/ setup = "copy" /\ f = at.target

(* rmdir /s /q: every file that nobody has open, then the folder if        *)
(* nothing is left in it and no process runs in it.                        *)
TryFolder ==
  LET left == [name \in Names |-> IF Open(at[name]) THEN at[name] ELSE NoFile]
      gone == {at[name] : name \in {n \in Names : ~Open(at[n])}}
  IN  /\ removal = "folder"
      /\ at' = left /\ rest' = FALSE
      /\ disk' = [f \in Inodes |-> IF f \in gone THEN Nothing ELSE disk[f]]
      /\ overlap' = TRUE
      /\ tries' = tries - 1
      /\ \/ removal' = "none" /\ \A name \in Names : left[name] = NoFile
         \/ removal' = (IF tries = 1 THEN "none" ELSE "folder")
      /\ UNCHANGED <<othersVars, setup, source, shortcut, listed, setups, removals, hurried,
                     mixed, stuck>>

-----------------------------------------------------------------------------

SetupStep ==
  \/ \E release \in Releases : BeginSetup(release)
  \/ OpenProgram
  \/ CopyProgram
  \/ CopyRest
  \/ InstallShortcuts
  \/ RegisterApp
  \/ WriteInstallInfo
  \/ SetupThrows

RemovalStep ==
  \/ BeginRemoval
  \/ RemoveShortcuts
  \/ RemoveEntry
  \/ TryFolder

(* Nothing takes the place of a file while it is being copied.             *)
UpdateStep ==
  /\ Next
  /\ setup = "copy" => at'.target = at.target
  /\ mixed' = (mixed \/ (setup # "none" /\ SomeInstalls'))
  /\ UNCHANGED <<setup, source, rest, shortcut, listed, removal, tries, setups, removals, hurried,
                 stuck>>

InstallationNext == UpdateStep \/ SetupStep \/ RemovalStep

InstallationSpec == InstallationInit /\ [][InstallationNext]_allVars

-----------------------------------------------------------------------------
(* Properties, beside those of Updater.                                    *)

(* What the Start menu and Settings > Apps offer.                          *)
Offered == (IF shortcut THEN {"shortcut"} ELSE {}) \cup (IF listed THEN {"entry"} ELSE {})

(* What is offered can be started and can be uninstalled: whatever step a  *)
(* setup throws at, and at every moment of a removal and after it, but for *)
(* what a removal tried to take away and could not -- unless a setup and a *)
(* removal were at work together.                                          *)
ListedIsThere == ~hurried => (rest /\ at.target # NoFile) \/ Offered \subseteq stuck
=============================================================================
