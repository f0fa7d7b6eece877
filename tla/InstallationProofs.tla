------------------------- MODULE InstallationProofs -------------------------
(***************************************************************************)
(* What the installation folder is promised, for any number of installers, *)
(* releases, attempts, crashes, setups and removals.                       *)
(***************************************************************************)
EXTENDS Installation, TLAPS

(* What opening a file for writing does to the folder.                     *)
LEMMA OpenEmptyDoes ==
  ASSUME TypeOK, NEW i \in Installers, NEW name \in {"bak", "new"}, OpenEmpty(i, name)
  PROVE  /\ at' \in [Names -> Inodes \cup {NoFile}]
         /\ at'[name] \in Inodes
         /\ handle' = [handle EXCEPT ![i] = at'[name]]
         /\ disk' = [disk EXCEPT ![at'[name]] = Partial]
         /\ \A n \in Names : n # name => at'[n] = at[n]
         /\ \A n \in Names : n # name => at[n] # at'[name]
<1> USE UpdaterAssumption DEF TypeOK, Names, NoFile
<1>1. CASE at[name] # NoFile
  BY <1>1 DEF OpenEmpty
<1>2. CASE at[name] = NoFile
  <2>1. PICK f \in Free : /\ handle' = [handle EXCEPT ![i] = f]
                          /\ disk' = [disk EXCEPT ![f] = Partial]
                          /\ at' = [at EXCEPT ![name] = f]
    BY <1>2 DEF OpenEmpty
  <2>2. f \in Inodes /\ \A n \in Names : at[n] # f
    BY DEF Free
  <2>3. at'[name] = f /\ \A n \in Names : n # name => at'[n] = at[n]
    BY <2>1
  <2> QED
    BY <2>1, <2>2, <2>3
<1> QED
  BY <1>1, <1>2

LEMMA InitTypeOK == InstallationInit => TypeOK
<1> SUFFICES ASSUME InstallationInit PROVE TypeOK
  OBVIOUS
<1> USE UpdaterAssumption DEF InstallationInit, Init, Releases, NoFile, Nothing
<1>1. 0 \in Releases
  OBVIOUS
<1>2. served \in [{"manifest", "sig", "artifact"} -> Releases]
  BY <1>1
<1>3. /\ at \in [Names -> Inodes \cup {NoFile}]
      /\ \A n, m \in Names : at[n] = at[m] /\ at[n] # NoFile => n = m
  BY DEF Names
<1>4. disk \in [Inodes -> Releases \cup {Partial, Garbled, Nothing}]
  BY <1>1
<1>5. /\ pc \in [Installers -> Swapping \cup {"idle", "signature", "download", "installed"}]
      /\ running \in [Installers -> Releases]
      /\ want \in [Installers -> Releases]
      /\ data \in [Installers -> Releases \cup {Partial, Garbled, Nothing}]
      /\ old \in [Installers -> Releases \cup {Partial, Garbled, Nothing}]
      /\ handle \in [Installers -> Inodes \cup {NoFile}]
  BY <1>1
<1>6. \A i \in Installers : pc[i] \in {"backup write", "new write"} <=> handle[i] # NoFile
  OBVIOUS
<1>7. attempts \in 0..MaxInstalls /\ crashes \in 0..MaxCrashes
  OBVIOUS
<1>8. overlap \in BOOLEAN /\ replaced \in Releases \cup {Partial, Garbled, Nothing}
  OBVIOUS
<1> HIDE DEF InstallationInit
<1> QED
  BY <1>2, <1>3, <1>4, <1>5, <1>6, <1>7, <1>8 DEF TypeOK

(* The parts of TypeOK.                                                    *)
Places == Swapping \cup {"idle", "signature", "download", "installed"}

Contents == Releases \cup {Partial, Garbled, Nothing}

WritersOK ==
  /\ pc \in [Installers -> Places]
  /\ handle \in [Installers -> Inodes \cup {NoFile}]
  /\ \A i \in Installers : pc[i] \in {"backup write", "new write"} <=> handle[i] # NoFile

LocalsOK ==
  /\ running \in [Installers -> Releases]
  /\ want \in [Installers -> Releases]
  /\ data \in [Installers -> Contents]
  /\ old \in [Installers -> Contents]

FilesOK ==
  /\ at \in [Names -> Inodes \cup {NoFile}]
  /\ \A n, m \in Names : at[n] = at[m] /\ at[n] # NoFile => n = m
  /\ disk \in [Inodes -> Contents]

RestOK ==
  /\ served \in [{"manifest", "sig", "artifact"} -> Releases]
  /\ attempts \in 0..MaxInstalls /\ crashes \in 0..MaxCrashes
  /\ overlap \in BOOLEAN /\ replaced \in Contents

LEMMA TypeOKParts == TypeOK <=> WritersOK /\ LocalsOK /\ FilesOK /\ RestOK
BY DEF TypeOK, WritersOK, LocalsOK, FilesOK, RestOK, Places, Contents

LEMMA TypeOKPartsNext == TypeOK' <=> WritersOK' /\ LocalsOK' /\ FilesOK' /\ RestOK'
BY DEF TypeOK, WritersOK, LocalsOK, FilesOK, RestOK, Places, Contents

LEMMA LeaveTypes ==
  ASSUME WritersOK, LocalsOK, NEW i \in Installers, Leave(i)
  PROVE  /\ WritersOK'
         /\ want' \in [Installers -> Releases]
         /\ data' \in [Installers -> Contents] /\ old' \in [Installers -> Contents]
<1>1. 0 \in Releases
  BY UpdaterAssumption DEF Releases
<1>2. WritersOK'
  BY DEF WritersOK, Leave, Places
<1> QED
  BY <1>1, <1>2 DEF LocalsOK, Leave, Contents

LEMMA LeaveKeepsLocals ==
  ASSUME LocalsOK, WritersOK, NEW i \in Installers, Leave(i),
         running' \in [Installers -> Releases]
  PROVE  WritersOK' /\ LocalsOK'
BY LeaveTypes DEF LocalsOK

LEMMA AtTypes ==
  ASSUME WritersOK, NEW i \in Installers, NEW place \in Places, At(i, place),
         handle' \in [Installers -> Inodes \cup {NoFile}],
         \A j \in Installers : j # i => handle'[j] = handle[j],
         place \in {"backup write", "new write"} <=> handle'[i] # NoFile
  PROVE  WritersOK'
BY DEF WritersOK, At

LEMMA StayTypes ==
  ASSUME WritersOK, NEW i \in Installers, NEW place \in Places, At(i, place),
         UNCHANGED handle, {pc[i], place} \cap {"backup write", "new write"} = {}
  PROVE  WritersOK'
BY DEF WritersOK, At

LEMMA HoldsTypes ==
  ASSUME FilesOK, NEW name \in Names
  PROVE  Holds(name) \in Contents
BY DEF FilesOK, Holds, Contents

LEMMA FetchedTypes ==
  ASSUME RestOK, NEW file \in {"manifest", "sig", "artifact"}
  PROVE  Fetched(file) \subseteq Releases \cup {Garbled}
<1>1. served[file] \in 0..Latest
  BY DEF RestOK, Releases
<1>2. 0..served[file] \subseteq 0..Latest
  BY <1>1, UpdaterAssumption
<1> QED
  BY <1>2 DEF Fetched, Releases

LEMMA FetchManifestTypes ==
  ASSUME WritersOK, LocalsOK, FilesOK, RestOK, NEW i \in Installers, FetchManifest(i)
  PROVE  WritersOK' /\ LocalsOK' /\ FilesOK' /\ RestOK'
<1>1. data' \in [Installers -> Contents]
  BY FetchedTypes DEF FetchManifest, LocalsOK, Contents
<1>2. WritersOK'
  BY StayTypes DEF FetchManifest, Places
<1>3. attempts' \in 0..MaxInstalls
  BY UpdaterAssumption DEF FetchManifest, RestOK
<1> QED
  BY <1>1, <1>2, <1>3 DEF FetchManifest, LocalsOK, FilesOK, RestOK, fileVars, histVars

LEMMA CheckManifestTypes ==
  ASSUME WritersOK, LocalsOK, FilesOK, RestOK, NEW i \in Installers, CheckManifest(i)
  PROVE  WritersOK' /\ LocalsOK' /\ FilesOK' /\ RestOK'
<1>1. UNCHANGED <<served, running, at, disk, attempts, crashes, overlap, replaced>>
  BY DEF CheckManifest, fileVars, countVars, histVars
<1>2. PICK sig \in Fetched("sig") :
           \/ /\ Verifies(data[i], sig) /\ At(i, "download")
              /\ want' = [want EXCEPT ![i] = data[i]] /\ UNCHANGED <<data, old, handle>>
           \/ Leave(i)
  BY DEF CheckManifest
<1>3. CASE Leave(i)
  BY <1>1, <1>3, LeaveKeepsLocals DEF FilesOK, RestOK, LocalsOK
<1>4. CASE /\ Verifies(data[i], sig) /\ At(i, "download")
           /\ want' = [want EXCEPT ![i] = data[i]] /\ UNCHANGED <<data, old, handle>>
  <2>1. data[i] \in Releases
    BY <1>4, FetchedTypes DEF Verifies
  <2>2. WritersOK'
    BY <1>4, StayTypes DEF CheckManifest, Places
  <2> QED
    BY <1>1, <1>4, <2>1, <2>2 DEF FilesOK, RestOK, LocalsOK
<1> QED
  BY <1>2, <1>3, <1>4

LEMMA DownloadTypes ==
  ASSUME WritersOK, LocalsOK, FilesOK, RestOK, NEW i \in Installers, Download(i)
  PROVE  WritersOK' /\ LocalsOK' /\ FilesOK' /\ RestOK'
<1>1. UNCHANGED <<served, running, at, disk, attempts, crashes, replaced>>
  BY DEF Download, fileVars, countVars
<1>2. PICK got \in Fetched("artifact") :
           \/ /\ data' = [data EXCEPT ![i] = got] /\ At(i, "backup")
              /\ overlap' \in BOOLEAN /\ UNCHANGED <<want, old, handle>>
           \/ Leave(i) /\ UNCHANGED overlap
  BY DEF Download
<1>3. CASE Leave(i) /\ UNCHANGED overlap
  BY <1>1, <1>3, LeaveKeepsLocals DEF FilesOK, RestOK, LocalsOK
<1>4. CASE /\ data' = [data EXCEPT ![i] = got] /\ At(i, "backup")
           /\ overlap' \in BOOLEAN /\ UNCHANGED <<want, old, handle>>
  <2>1. got \in Contents
    BY <1>2, FetchedTypes DEF Contents
  <2>2. WritersOK'
    BY <1>4, StayTypes DEF Download, Places, Swapping
  <2> QED
    BY <1>1, <1>4, <2>1, <2>2 DEF FilesOK, RestOK, LocalsOK
<1> QED
  BY <1>2, <1>3, <1>4

LEMMA LeavingTypes ==
  ASSUME WritersOK, LocalsOK, FilesOK, RestOK, NEW i \in Installers,
         GiveUp(i) \/ Finish(i) \/ Crash(i) \/ SwapFails(i)
  PROVE  WritersOK' /\ LocalsOK' /\ FilesOK' /\ RestOK'
<1>1. Leave(i)
  BY DEF GiveUp, Finish, Crash, SwapFails
<1>2. running' \in [Installers -> Releases]
  BY DEF GiveUp, Finish, Crash, SwapFails, LocalsOK
<1>3. FilesOK'
  <2>1. at' \in {at, [at EXCEPT !.new = NoFile]}
    BY DEF GiveUp, Finish, Crash, SwapFails, fileVars
  <2>2. UNCHANGED disk \/ disk' = [disk EXCEPT ![handle[i]] = Garbled]
    BY DEF GiveUp, Finish, Crash, SwapFails, CutShort, fileVars
  <2> QED
    BY <2>1, <2>2 DEF FilesOK, Names, Contents
<1>4. RestOK'
  BY UpdaterAssumption DEF GiveUp, Finish, Crash, SwapFails, countVars, histVars, RestOK
<1> QED
  BY <1>1, <1>2, <1>3, <1>4, LeaveKeepsLocals

LEMMA ReverifyTypes ==
  ASSUME WritersOK, LocalsOK, FilesOK, RestOK, NEW i \in Installers, Reverify(i)
  PROVE  WritersOK' /\ LocalsOK' /\ FilesOK' /\ RestOK'
<1>1. UNCHANGED <<served, running, fileVars, countVars, histVars>>
  BY DEF Reverify
<1>2. WritersOK' /\ LocalsOK'
  <2>1. CASE Leave(i)
    BY <1>1, <2>1, LeaveKeepsLocals DEF LocalsOK
  <2>2. CASE At(i, "replace") /\ UNCHANGED <<want, data, old, handle>>
    <3>1. WritersOK'
      BY <2>2, StayTypes DEF Reverify, Places, Swapping
    <3> QED
      BY <1>1, <2>2, <3>1 DEF LocalsOK
  <2> QED
    BY <2>1, <2>2 DEF Reverify
<1> QED
  BY <1>1, <1>2 DEF FilesOK, RestOK, fileVars, countVars, histVars

LEMMA ReplaceTypes ==
  ASSUME WritersOK, LocalsOK, FilesOK, RestOK, NEW i \in Installers, Replace(i)
  PROVE  WritersOK' /\ LocalsOK' /\ FilesOK' /\ RestOK'
<1>1. FilesOK'
  BY DEF Replace, FilesOK, Names
<1>2. replaced' \in Contents
  BY HoldsTypes DEF Replace, Names
<1>3. WritersOK'
  BY StayTypes DEF Replace, Places
<1> QED
  BY <1>1, <1>2, <1>3 DEF Replace, LocalsOK, RestOK, countVars

LEMMA OpenTypes ==
  ASSUME WritersOK, LocalsOK, FilesOK, RestOK, NEW i \in Installers,
         OpenBackup(i) \/ OpenNew(i)
  PROVE  WritersOK' /\ LocalsOK' /\ FilesOK' /\ RestOK'
<1>1. PICK name \in {"bak", "new"}, place \in {"backup write", "new write"} :
           /\ OpenEmpty(i, name) /\ At(i, place)
           /\ old' \in {old, [old EXCEPT ![i] = Holds("target")]}
           /\ UNCHANGED <<served, running, want, data, countVars, histVars>>
  BY DEF OpenBackup, OpenNew, Aside
<1>2. TypeOK
  BY TypeOKParts
<1>3. /\ at' \in [Names -> Inodes \cup {NoFile}]
      /\ at'[name] \in Inodes
      /\ handle' = [handle EXCEPT ![i] = at'[name]]
      /\ disk' = [disk EXCEPT ![at'[name]] = Partial]
      /\ \A n \in Names : n # name => at'[n] = at[n]
      /\ \A n \in Names : n # name => at[n] # at'[name]
  BY <1>1, <1>2, OpenEmptyDoes
<1>4. FilesOK'
  BY <1>3 DEF FilesOK, Contents
<1>5. WritersOK'
  <2>1. handle' \in [Installers -> Inodes \cup {NoFile}]
    BY <1>3 DEF WritersOK
  <2>2. handle'[i] # NoFile /\ \A j \in Installers : j # i => handle'[j] = handle[j]
    BY <1>3, UpdaterAssumption DEF WritersOK, NoFile
  <2> QED
    BY <1>1, <2>1, <2>2, AtTypes DEF Places, Swapping
<1>6. LocalsOK'
  BY <1>1, HoldsTypes DEF LocalsOK, Names
<1> QED
  BY <1>1, <1>4, <1>5, <1>6 DEF RestOK, countVars, histVars

LEMMA WrittenTypes ==
  ASSUME NEW bytes \in Contents, NEW found
  PROVE  Written(bytes, found) \subseteq Contents
BY DEF Written, Contents

LEMMA WriteTypes ==
  ASSUME WritersOK, LocalsOK, FilesOK, RestOK, NEW i \in Installers,
         WriteBackup(i) \/ WriteNew(i)
  PROVE  WritersOK' /\ LocalsOK' /\ FilesOK' /\ RestOK'
<1>1. PICK bytes \in Contents, place \in {"new", "verify"} :
           CloseWith(i, bytes) /\ At(i, place)
  BY DEF WriteBackup, WriteNew, Saves, LocalsOK
<1>2. WritersOK'
  <2>1. handle' \in [Installers -> Inodes \cup {NoFile}]
    BY <1>1 DEF WritersOK, CloseWith
  <2>2. handle'[i] = NoFile /\ \A j \in Installers : j # i => handle'[j] = handle[j]
    BY <1>1 DEF WritersOK, CloseWith
  <2> QED
    BY <1>1, <2>1, <2>2, AtTypes DEF Places, Swapping
<1>3. PICK left \in Contents : disk' = [disk EXCEPT ![handle[i]] = left]
  BY <1>1, WrittenTypes DEF CloseWith
<1> QED
  BY <1>1, <1>2, <1>3 DEF CloseWith, LocalsOK, FilesOK, RestOK, countVars, histVars

LEMMA PublishTypes ==
  ASSUME WritersOK, LocalsOK, FilesOK, RestOK, NEW file \in DOMAIN served, Publish(file)
  PROVE  WritersOK' /\ LocalsOK' /\ FilesOK' /\ RestOK'
<1>1. served' \in [{"manifest", "sig", "artifact"} -> Releases]
  BY UpdaterAssumption DEF Publish, RestOK, Releases
<1> QED
  BY <1>1 DEF Publish, WritersOK, LocalsOK, FilesOK, RestOK, installerVars, fileVars, countVars,
              histVars

LEMMA UpdateTypes ==
  ASSUME TypeOK, Next \/ UNCHANGED vars
  PROVE  TypeOK'
<1> USE TypeOKParts, TypeOKPartsNext
<1>1. ASSUME NEW i \in Installers, Install(i) \/ Crash(i)
      PROVE  TypeOK'
  BY <1>1, FetchManifestTypes, CheckManifestTypes, DownloadTypes, LeavingTypes, ReverifyTypes,
     ReplaceTypes, OpenTypes, WriteTypes DEF Install
<1>2. ASSUME NEW file \in DOMAIN served, Publish(file)
      PROVE  TypeOK'
  BY <1>2, PublishTypes
<1>3. CASE UNCHANGED vars
  BY <1>3 DEF vars, installerVars, fileVars, countVars, histVars,
              WritersOK, LocalsOK, FilesOK, RestOK
<1> QED
  BY <1>1, <1>2, <1>3 DEF Next

(* What the setup copies is a release.                                     *)
SourceOK == source \in Releases

LEMMA FolderTypes ==
  ASSUME TypeOK, SourceOK, SetupStep \/ RemovalStep
  PROVE  TypeOK'
<1> USE TypeOKParts, TypeOKPartsNext
<1>1. CASE OpenProgram
  <2>1. ASSUME disk' = [disk EXCEPT ![at.target] = Partial], UNCHANGED at
        PROVE  FilesOK'
    BY <2>1 DEF FilesOK, Contents
  <2>2. ASSUME NEW f \in Free, at' = [at EXCEPT !.target = f], disk' = [disk EXCEPT ![f] = Partial]
        PROVE  FilesOK'
    BY <2>2 DEF FilesOK, Contents, Free, Names
  <2>3. FilesOK'
    BY <1>1, <2>1, <2>2 DEF OpenProgram
  <2> QED
    BY <1>1, <2>3 DEF OpenProgram, othersVars, installerVars, countVars, WritersOK, LocalsOK, RestOK
<1>2. CASE CopyProgram
  <2>1. PICK left \in Contents : disk' = [disk EXCEPT ![at.target] = left]
    BY <1>2, WrittenTypes DEF CopyProgram, SourceOK, Contents
  <2>2. FilesOK'
    BY <1>2, <2>1 DEF CopyProgram, FilesOK
  <2> QED
    BY <1>2, <2>2 DEF CopyProgram, othersVars, installerVars, countVars, WritersOK, LocalsOK, RestOK
<1>3. CASE TryFolder
  <2>1. disk' \in [Inodes -> Contents]
    BY <1>3 DEF TryFolder, FilesOK, Contents
  <2>2. /\ at' \in [Names -> Inodes \cup {NoFile}]
        /\ \A name \in Names : at'[name] \in {at[name], NoFile}
    BY <1>3 DEF TryFolder, FilesOK
  <2>3. FilesOK'
    BY <2>1, <2>2 DEF FilesOK
  <2> QED
    BY <1>3, <2>3 DEF TryFolder, othersVars, installerVars, countVars, WritersOK, LocalsOK, RestOK
<1>4. CASE CopyRest
  BY <1>4 DEF CopyRest, othersVars, installerVars, countVars, fileVars, WritersOK, LocalsOK, FilesOK,
              RestOK
<1>5. CASE \/ \E release \in Releases : BeginSetup(release)
           \/ InstallShortcuts \/ RegisterApp \/ WriteInstallInfo
           \/ BeginRemoval \/ RemoveShortcuts \/ RemoveEntry
  <2>1. UNCHANGED vars
    BY <1>5 DEF BeginSetup, InstallShortcuts, RegisterApp, WriteInstallInfo, BeginRemoval,
                RemoveShortcuts, RemoveEntry
  <2> QED
    BY <2>1, UpdateTypes
<1>6. CASE SetupThrows
  <2>1. FilesOK'
    BY <1>6 DEF SetupThrows, FilesOK, Contents
  <2> QED
    BY <1>6, <2>1 DEF SetupThrows, othersVars, installerVars, countVars, WritersOK, LocalsOK, RestOK
<1> QED
  BY <1>1, <1>2, <1>3, <1>4, <1>5, <1>6 DEF SetupStep, RemovalStep

LEMMA SourceOKStep ==
  ASSUME SourceOK, [InstallationNext]_allVars
  PROVE  SourceOK'
BY UpdaterAssumption
DEF Releases, SetupEnds, SourceOK, InstallationNext, allVars, setupVars, UpdateStep, SetupStep,
       RemovalStep,
       BeginSetup, OpenProgram, CopyProgram, CopyRest, InstallShortcuts, RegisterApp, WriteInstallInfo,
       SetupThrows, BeginRemoval, RemoveShortcuts, RemoveEntry, TryFolder

(* Whoever works in the folder, the variables keep their types: an         *)
(* installer that writes has a file, and the three names never share one.  *)
THEOREM FolderWellTyped == InstallationSpec => []TypeOK
<1>1. InstallationInit => TypeOK /\ SourceOK
  BY InitTypeOK, UpdaterAssumption DEF InstallationInit, SourceOK, Releases
<1>2. TypeOK /\ SourceOK /\ [InstallationNext]_allVars => TypeOK' /\ SourceOK'
  <2> SUFFICES ASSUME TypeOK, SourceOK, [InstallationNext]_allVars PROVE TypeOK' /\ SourceOK'
    OBVIOUS
  <2>1. \/ SetupStep \/ RemovalStep
        \/ Next \/ UNCHANGED vars
    BY DEF InstallationNext, UpdateStep, allVars
  <2> QED
    BY <2>1, UpdateTypes, FolderTypes, SourceOKStep
<1> QED
  BY <1>1, <1>2, PTL DEF InstallationSpec

(* Why no update goes back: what the manifest named was published, and     *)
(* from the moment it was verified it stays newer than the code that       *)
(* installs it, which starts a new release only when its attempt is over.  *)
VerifiedInv ==
  \A i \in Installers :
    /\ pc[i] = "signature" /\ data[i] # Garbled => data[i] <= served.manifest
    /\ pc[i] \in Swapping \cup {"download", "installed"} =>
         want[i] > running[i] /\ want[i] <= served.manifest /\ want[i] <= served.sig

LEMMA NumbersOK ==
  ASSUME TypeOK
  PROVE  /\ served.manifest \in Nat /\ served.sig \in Nat
         /\ \A i \in Installers : want[i] \in Nat /\ running[i] \in Nat /\ data[i] \in Int
<1>1. Releases \subseteq Nat
  BY UpdaterAssumption DEF Releases
<1>2. served.manifest \in Releases /\ served.sig \in Releases
  BY DEF TypeOK
<1>3. \A i \in Installers : want[i] \in Releases /\ running[i] \in Releases
  BY DEF TypeOK
<1>4. Releases \cup {Partial, Garbled, Nothing} \subseteq Int
  BY <1>1 DEF Partial, Garbled, Nothing
<1>5. \A i \in Installers : data[i] \in Releases \cup {Partial, Garbled, Nothing}
  BY DEF TypeOK
<1> QED
  BY <1>1, <1>2, <1>3, <1>4, <1>5

LEMMA VerifiedElsewhere ==
  ASSUME TypeOK, VerifiedInv, NEW j \in Installers, UNCHANGED served,
         pc'[j] = "idle" \/ (pc'[j] = pc[j] /\ want'[j] = want[j] /\ running'[j] = running[j]
                             /\ data'[j] = data[j])
  PROVE  /\ pc'[j] = "signature" /\ data'[j] # Garbled => data'[j] <= served'.manifest
         /\ pc'[j] \in Swapping \cup {"download", "installed"} =>
              want'[j] > running'[j] /\ want'[j] <= served'.manifest /\ want'[j] <= served'.sig
BY DEF VerifiedInv, Swapping

LEMMA VerifiedInvInstalls ==
  ASSUME TypeOK, VerifiedInv, NEW i \in Installers, Install(i) \/ Crash(i)
  PROVE  VerifiedInv'
<1> DEFINE
  Kept(j) == pc'[j] = "idle" \/ (pc'[j] = pc[j] /\ want'[j] = want[j] /\ running'[j] = running[j]
                                 /\ data'[j] = data[j])
<1>1. UNCHANGED served
  BY DEF Install, FetchManifest, CheckManifest, Download, GiveUp, OpenBackup, WriteBackup, OpenNew,
         WriteNew, Reverify, Replace, SwapFails, Finish, Crash, CloseWith
<1>2. ASSUME NEW j \in Installers, j # i PROVE Kept(j)
  BY <1>2 DEF TypeOK, At, Leave,
         Install, FetchManifest, CheckManifest, Download, GiveUp, OpenBackup, WriteBackup, OpenNew,
         WriteNew, Reverify, Replace, SwapFails, Finish, Crash, CloseWith
<1>3. SUFFICES ASSUME ~Kept(i)
               PROVE  /\ pc'[i] = "signature" /\ data'[i] # Garbled => data'[i] <= served'.manifest
                      /\ pc'[i] \in Swapping \cup {"download", "installed"} =>
                           /\ want'[i] > running'[i]
                           /\ want'[i] <= served'.manifest /\ want'[i] <= served'.sig
  <2> HIDE DEF Kept
  <2>1. ASSUME NEW j \in Installers, Kept(j)
        PROVE  /\ pc'[j] = "signature" /\ data'[j] # Garbled => data'[j] <= served'.manifest
               /\ pc'[j] \in Swapping \cup {"download", "installed"} =>
                    /\ want'[j] > running'[j]
                    /\ want'[j] <= served'.manifest /\ want'[j] <= served'.sig
    BY <1>1, <2>1, VerifiedElsewhere DEF Kept
  <2> QED
    BY <1>2, <2>1 DEF VerifiedInv
<1>4. ~Leave(i)
  BY <1>3 DEF Leave, TypeOK
<1>5. CASE FetchManifest(i)
  <2>1. data'[i] \in 0..served.manifest \cup {Garbled} /\ pc'[i] = "signature"
    BY <1>5 DEF FetchManifest, At, Fetched, TypeOK
  <2>2. data'[i] # Garbled => data'[i] <= served.manifest
    BY <2>1, NumbersOK
  <2> QED
    BY <1>1, <2>1, <2>2 DEF Swapping
<1>6. CASE CheckManifest(i)
  <2>1. PICK sig \in Fetched("sig") :
             /\ Verifies(data[i], sig) /\ IsNews(data[i], running[i])
             /\ want' = [want EXCEPT ![i] = data[i]] /\ At(i, "download")
    BY <1>4, <1>6 DEF CheckManifest
  <2>2. want'[i] = data[i] /\ running'[i] = running[i] /\ pc'[i] = "download"
    BY <1>6, <2>1 DEF TypeOK, At, CheckManifest
  <2>3. data[i] <= served.manifest /\ data[i] > running[i]
    BY <1>6, <2>1 DEF CheckManifest, VerifiedInv, Verifies, IsNews
  <2>4. data[i] <= served.sig
    <3>1. data[i] \in 0..served.sig
      BY <2>1 DEF Verifies, Fetched
    <3> QED
      BY <3>1, NumbersOK
  <2> QED
    BY <1>1, <2>2, <2>3, <2>4
<1>7. ASSUME want'[i] = want[i], running'[i] = running[i],
             pc[i] \in Swapping \cup {"download", "installed"}, pc'[i] # "signature"
      PROVE  /\ pc'[i] = "signature" /\ data'[i] # Garbled => data'[i] <= served'.manifest
             /\ pc'[i] \in Swapping \cup {"download", "installed"} =>
                  /\ want'[i] > running'[i]
                  /\ want'[i] <= served'.manifest /\ want'[i] <= served'.sig
  BY <1>1, <1>7 DEF VerifiedInv
<1>8. CASE Download(i)
  BY <1>4, <1>7, <1>8 DEF Download, At, TypeOK
<1>9. CASE OpenBackup(i) \/ OpenNew(i)
  BY <1>7, <1>9 DEF OpenBackup, OpenNew, At, TypeOK, Swapping
<1>10. CASE WriteBackup(i) \/ WriteNew(i)
  BY <1>7, <1>10 DEF WriteBackup, WriteNew, CloseWith, At, TypeOK, Swapping
<1>11. CASE Reverify(i)
  BY <1>4, <1>7, <1>11 DEF Reverify, At, TypeOK, Swapping
<1>12. CASE Replace(i)
  BY <1>7, <1>12 DEF Replace, At, TypeOK, Swapping
<1> QED
  BY <1>4, <1>5, <1>6, <1>8, <1>9, <1>10, <1>11, <1>12
  DEF Install, GiveUp, SwapFails, Finish, Crash

LEMMA VerifiedInvStep ==
  ASSUME TypeOK, VerifiedInv, [InstallationNext]_allVars
  PROVE  VerifiedInv'
<1>1. ASSUME NEW i \in Installers, Install(i) \/ Crash(i) PROVE VerifiedInv'
  BY <1>1, VerifiedInvInstalls
<1>2. ASSUME NEW file \in DOMAIN served, Publish(file) PROVE VerifiedInv'
  <2>1. /\ served.manifest \in Nat /\ served.sig \in Nat
        /\ \A i \in Installers : want[i] \in Nat /\ data[i] \in Int
    BY NumbersOK
  <2>2. served'.manifest >= served.manifest /\ served'.sig >= served.sig
        /\ served'.manifest \in Nat /\ served'.sig \in Nat
    <3>1. DOMAIN served = {"manifest", "sig", "artifact"} /\ file \in DOMAIN served
      BY DEF TypeOK
    <3>2. served' = [served EXCEPT ![file] = served[file] + 1]
      BY <1>2 DEF Publish
    <3> QED
      BY <2>1, <3>1, <3>2
  <2> QED
    BY <1>2, <2>1, <2>2 DEF Publish, VerifiedInv, installerVars
<1>3. CASE (SetupStep \/ RemovalStep) \/ UNCHANGED vars
  <2>1. UNCHANGED <<served, pc, running, want, data>>
    BY <1>3 DEF vars, installerVars, othersVars, SetupStep, RemovalStep,
       BeginSetup, OpenProgram, CopyProgram, CopyRest, InstallShortcuts, RegisterApp, WriteInstallInfo,
       SetupThrows, BeginRemoval, RemoveShortcuts, RemoveEntry, TryFolder
  <2> QED
    BY <2>1 DEF VerifiedInv
<1> QED
  BY <1>1, <1>2, <1>3 DEF InstallationNext, UpdateStep, Next, allVars

(* The only step that puts another file where one was is the rename.       *)
LEMMA OnlyReplaced ==
  ASSUME TypeOK, VerifiedInv, [InstallationNext]_allVars,
         at'.target # at.target, NoFile \notin {at.target, at'.target}
  PROVE  \E i \in Installers : /\ pc[i] = "replace" /\ pc'[i] = "installed"
                               /\ want[i] > running[i]
                               /\ want[i] <= served.manifest /\ want[i] <= served.sig
<1>1. ASSUME NEW i \in Installers, Install(i) \/ Crash(i)
      PROVE  Replace(i)
  <2>1. ~OpenBackup(i) /\ ~OpenNew(i)
    BY OpenEmptyDoes DEF OpenBackup, OpenNew, Aside, Names
  <2>2. ~SwapFails(i)
    BY DEF SwapFails, TypeOK, Names
  <2> QED
    BY <1>1, <2>1, <2>2
    DEF Install, FetchManifest, CheckManifest, Download, GiveUp, WriteBackup, WriteNew, Reverify,
        Finish, Crash, CloseWith, fileVars
<1>2. ~SetupStep
  BY DEF SetupStep, BeginSetup, OpenProgram, CopyProgram, CopyRest, InstallShortcuts, RegisterApp,
         WriteInstallInfo, SetupThrows, vars, fileVars
<1>3. ~RemovalStep
  BY DEF RemovalStep, BeginRemoval, RemoveShortcuts, RemoveEntry, TryFolder, vars, fileVars, Names
<1>4. ~(UNCHANGED vars) /\ \A file \in DOMAIN served : ~Publish(file)
  BY DEF vars, fileVars, Publish
<1>5. PICK i \in Installers : Replace(i)
  BY <1>1, <1>2, <1>3, <1>4 DEF InstallationNext, UpdateStep, Next, allVars
<1>6. pc[i] = "replace" /\ pc'[i] = "installed"
  BY <1>5 DEF Replace, At, TypeOK
<1> QED
  BY <1>6 DEF VerifiedInv, Swapping

(* "No signed-but-old rollback", with the folder shared by everyone.       *)
THEOREM NeverBack == InstallationSpec => NoRollback
<1>1. InstallationInit => VerifiedInv
  BY DEF InstallationInit, Init, VerifiedInv, Swapping
<1>2. TypeOK /\ VerifiedInv /\ [InstallationNext]_allVars =>
        [at'.target # at.target /\ NoFile \notin {at.target, at'.target} =>
           \E i \in Installers : /\ pc[i] = "replace" /\ pc'[i] = "installed"
                                 /\ want[i] > running[i]
                                 /\ want[i] <= served.manifest /\ want[i] <= served.sig]_vars
  BY OnlyReplaced
<1>3. TypeOK /\ VerifiedInv /\ [InstallationNext]_allVars => VerifiedInv'
  BY VerifiedInvStep
<1> QED
  BY <1>1, <1>2, <1>3, FolderWellTyped, PTL DEF InstallationSpec, NoRollback

-----------------------------------------------------------------------------

(* Why what is offered is there: as long as no setup and no removal were   *)
(* at work together, the files are laid down before the program is listed, *)
(* and before the files go the entry and the shortcuts are gone, or a      *)
(* removal could not take them away.                                       *)
NothingElseOffered ==
  /\ shortcut => "shortcut" \in stuck
  /\ listed => "entry" \in stuck

OfferInv ==
  ~hurried =>
    /\ setup = "none" \/ removal = "none"
    /\ (rest /\ at.target # NoFile) \/ NothingElseOffered
    /\ setup \in {"copy", "rest", "shortcuts", "register", "info"} => at.target # NoFile
    /\ setup \in {"shortcuts", "register", "info"} => rest
    /\ removal \in {"entry", "folder"} => (shortcut => "shortcut" \in stuck)
    /\ removal = "folder" => (listed => "entry" \in stuck)

(* The steps of install.ps1 in their order.                                *)
LEMMA StepOrder ==
  /\ StepAfter("program") = "copy" /\ StepAfter("copy") = "rest"
  /\ StepAfter("rest") = "shortcuts" /\ StepAfter("shortcuts") = "register"
  /\ StepAfter("register") = "info"
<1>1. DOMAIN InstallSteps = 1..6 /\ Len(InstallSteps) = 6
  BY DEF InstallSteps
<1>2. /\ InstallSteps[1] = "program" /\ InstallSteps[2] = "copy" /\ InstallSteps[3] = "rest"
      /\ InstallSteps[4] = "shortcuts" /\ InstallSteps[5] = "register" /\ InstallSteps[6] = "info"
  BY DEF InstallSteps
<1>3. ASSUME NEW n \in 1..6
      PROVE  (CHOOSE k \in DOMAIN InstallSteps : InstallSteps[k] = InstallSteps[n]) = n
  <2>1. \A k \in 1..6 : InstallSteps[k] = InstallSteps[n] => k = n
    BY <1>2
  <2> QED
    BY <1>1, <2>1
<1> QED
  BY <1>1, <1>2, <1>3 DEF StepAfter

(* An update takes nothing away from the program's name but by putting     *)
(* another file there.                                                     *)
LEMMA TargetStays ==
  ASSUME TypeOK, Next \/ UNCHANGED vars, at.target # NoFile
  PROVE  at'.target # NoFile
<1>1. ASSUME NEW i \in Installers, Install(i) \/ Crash(i), ~Replace(i)
      PROVE  at'.target = at.target
  <2>1. CASE OpenBackup(i) \/ OpenNew(i)
    BY <2>1, OpenEmptyDoes DEF OpenBackup, OpenNew, Aside, Names
  <2>2. CASE SwapFails(i)
    BY <2>2 DEF SwapFails, TypeOK, Names
  <2> QED
    BY <1>1, <2>1, <2>2
    DEF Install, FetchManifest, CheckManifest, Download, GiveUp, WriteBackup, WriteNew, Reverify,
        Finish, Crash, CloseWith, fileVars
<1>2. ASSUME NEW i \in Installers, Replace(i) PROVE at'.target # NoFile
  BY <1>2 DEF Replace, TypeOK, Names
<1> QED
  BY <1>1, <1>2 DEF Next, Publish, vars, fileVars

LEMMA OfferInvStep ==
  ASSUME TypeOK, OfferInv, [InstallationNext]_allVars
  PROVE  OfferInv'
<1>1. CASE UpdateStep \/ UNCHANGED allVars
  <2>1. UNCHANGED <<hurried, setup, removal, listed, shortcut, rest, stuck>>
    BY <1>1 DEF UpdateStep, allVars, setupVars
  <2>2. at.target # NoFile => at'.target # NoFile
    BY <1>1, TargetStays DEF UpdateStep, allVars
  <2> QED
    BY <2>1, <2>2 DEF OfferInv, NothingElseOffered
<1>2. CASE OpenProgram
  <2>1. at'.target # NoFile
    BY <1>2, UpdaterAssumption DEF OpenProgram, Free, TypeOK, Names, NoFile
  <2> QED
    BY <1>2, <2>1, StepOrder DEF OpenProgram, SetupGoesOn, OfferInv, NothingElseOffered
<1>3. CASE CopyProgram \/ CopyRest
  BY <1>3, StepOrder DEF CopyProgram, CopyRest, SetupGoesOn, OfferInv, NothingElseOffered, fileVars
<1>4. CASE InstallShortcuts \/ RegisterApp
  <2>1. /\ setup \in {"shortcuts", "register"} /\ setup' \in {"register", "info"}
        /\ UNCHANGED <<hurried, removal, rest, at>>
    BY <1>4, StepOrder DEF InstallShortcuts, RegisterApp, SetupGoesOn, vars, fileVars
  <2> QED
    BY <2>1 DEF OfferInv
<1>8. CASE WriteInstallInfo \/ SetupThrows
  <2>1. setup' = "none" /\ UNCHANGED <<hurried, removal, rest, at, listed, shortcut, stuck>>
    BY <1>8 DEF WriteInstallInfo, SetupThrows, SetupEnds, vars, fileVars
  <2> QED
    BY <2>1 DEF OfferInv, NothingElseOffered
<1>5. ASSUME NEW release \in Releases, BeginSetup(release)
      PROVE  OfferInv'
  <2>1. Head(InstallSteps) = "program"
    BY DEF InstallSteps
  <2> QED
    BY <1>5, <2>1 DEF BeginSetup, OfferInv, NothingElseOffered, vars, fileVars
<1>6. CASE BeginRemoval \/ RemoveShortcuts \/ RemoveEntry
  BY <1>6 DEF BeginRemoval, RemoveShortcuts, RemoveEntry, OfferInv, NothingElseOffered, vars, fileVars
<1>7. CASE TryFolder
  BY <1>7 DEF TryFolder, OfferInv, NothingElseOffered
<1> QED
  BY <1>1, <1>2, <1>3, <1>4, <1>5, <1>6, <1>7, <1>8 DEF InstallationNext, SetupStep, RemovalStep

(* What the Start menu or the list of apps offers can be started, and can  *)
(* be uninstalled, but for what Windows refused to take away in a removal. *)
THEOREM OfferedIsThere == InstallationSpec => []ListedIsThere
<1>1. InstallationInit => OfferInv
  BY UpdaterAssumption DEF InstallationInit, Init, OfferInv, NothingElseOffered, NoFile
<1>2. TypeOK /\ OfferInv /\ [InstallationNext]_allVars => OfferInv'
  BY OfferInvStep
<1>3. OfferInv => ListedIsThere
  BY DEF OfferInv, NothingElseOffered, ListedIsThere, Offered
<1> QED
  BY <1>1, <1>2, <1>3, FolderWellTyped, PTL DEF InstallationSpec

-----------------------------------------------------------------------------

(* Why the program is whole: whoever is alone in the folder finds his      *)
(* files as he left them, and how far an installer has come is what it may *)
(* count on.  What it has written in .new it need not: it reads it again.  *)
Busy == Swapping \cup {"installed"}

Progress(i) ==
  /\ pc[i] = "backup write" =>
       handle[i] = at.bak /\ old[i] = disk[at.target] /\ disk[at.bak] = Partial
  /\ pc[i] = "new write" => handle[i] = at.new
  /\ pc[i] \in {"new", "new write", "verify", "replace"} =>
       at.bak # NoFile /\ disk[at.bak] = disk[at.target]
  /\ pc[i] = "replace" => at.new # NoFile /\ disk[at.new] = want[i]
  /\ pc[i] = "installed" =>
       at.bak # NoFile /\ disk[at.bak] = replaced /\ disk[at.target] = want[i]

AloneInv ==
  ~overlap =>
    /\ setup \notin {"copy", "rest"}
    /\ at.target # NoFile /\ disk[at.target] \in Releases
    /\ \A i, j \in Installers : pc[i] \in Busy /\ pc[j] \in Busy => i = j
    /\ \A i \in Installers : Progress(i)

(* A step that touches no file, of an installer that is not in the swap    *)
(* after it.                                                               *)
LEMMA AloneOutside ==
  ASSUME TypeOK, AloneInv, NEW i \in Installers, ~overlap',
         UNCHANGED <<at, disk, overlap, replaced, setup>>,
         pc'[i] \notin Busy,
         \A j \in Installers : j # i =>
           pc'[j] = pc[j] /\ handle'[j] = handle[j] /\ old'[j] = old[j] /\ want'[j] = want[j]
  PROVE  AloneInv'
<1>1. /\ setup \notin {"copy", "rest"} /\ at.target # NoFile /\ disk[at.target] \in Releases
      /\ \A j, k \in Installers : pc[j] \in Busy /\ pc[k] \in Busy => j = k
      /\ \A j \in Installers : Progress(j)
  BY DEF AloneInv
<1>2. Progress(i)'
  BY DEF Progress, Busy, Swapping
<1>3. ASSUME NEW j \in Installers, j # i PROVE Progress(j)'
  BY <1>1, <1>3 DEF Progress
<1>4. \A j, k \in Installers : pc'[j] \in Busy /\ pc'[k] \in Busy => j = k
  BY <1>1
<1> QED
  BY <1>1, <1>2, <1>3, <1>4 DEF AloneInv

(* A step in the swap, of which only this installer takes notice.          *)
LEMMA AloneInside ==
  ASSUME TypeOK, AloneInv, NEW i \in Installers, ~overlap', ~overlap, UNCHANGED setup,
         at'.target # NoFile, disk'[at'.target] \in Releases, Progress(i)',
         \A j \in Installers : j # i => pc'[j] \notin Busy
  PROVE  AloneInv'
<1>1. ASSUME NEW j \in Installers, j # i PROVE Progress(j)'
  <2>1. pc'[j] \notin Busy
    BY <1>1
  <2> QED
    BY <2>1 DEF Progress, Busy, Swapping
<1>2. \A j \in Installers : Progress(j)'
  BY <1>1
<1>3. \A j, k \in Installers : pc'[j] \in Busy /\ pc'[k] \in Busy => j = k
  OBVIOUS
<1>4. setup' \notin {"copy", "rest"}
  BY DEF AloneInv
<1> QED
  BY <1>2, <1>3, <1>4 DEF AloneInv

(* The installer that is in the swap is in it alone.                       *)
LEMMA AloneOthers ==
  ASSUME TypeOK, AloneInv, ~overlap, NEW i \in Installers, pc[i] \in Busy,
         \A j \in Installers : j # i => pc'[j] = pc[j]
  PROVE  /\ \A j \in Installers : j # i => pc'[j] \notin Busy
         /\ at.target \in Inodes /\ disk[at.target] \in Releases /\ Progress(i)
         /\ setup \notin {"copy", "rest"}
<1>1. at.target \in Inodes \cup {NoFile}
  BY DEF TypeOK, Names
<1> QED
  BY <1>1 DEF AloneInv

LEMMA AloneOpens ==
  ASSUME TypeOK, AloneInv, ~overlap, ~overlap', NEW i \in Installers, UNCHANGED setup,
         OpenBackup(i) \/ OpenNew(i)
  PROVE  AloneInv'
<1>1. /\ pc[i] \in Busy
      /\ pc'[i] \in {"backup write", "new write"}
      /\ \A j \in Installers : j # i => pc'[j] = pc[j]
  BY DEF OpenBackup, OpenNew, At, TypeOK, Busy, Swapping
<1>2. /\ \A j \in Installers : j # i => pc'[j] \notin Busy
      /\ at.target \in Inodes /\ disk[at.target] \in Releases /\ Progress(i)
  BY <1>1, AloneOthers
<1>3. CASE OpenBackup(i)
  <2>1. /\ at'["bak"] \in Inodes /\ handle' = [handle EXCEPT ![i] = at'["bak"]]
        /\ disk' = [disk EXCEPT ![at'["bak"]] = Partial]
        /\ at'["target"] = at["target"] /\ at["target"] # at'["bak"]
    BY <1>3, OpenEmptyDoes DEF OpenBackup, Names
  <2>2. disk'[at'.target] = disk[at.target] /\ handle'[i] = at'.bak /\ disk'[at'.bak] = Partial
    BY <1>2, <2>1 DEF TypeOK
  <2>3. old'[i] = disk[at.target] /\ pc'[i] = "backup write"
    BY <1>3 DEF OpenBackup, Holds, At, TypeOK
  <2>4. Progress(i)'
    BY <2>2, <2>3 DEF Progress
  <2> QED
    BY <1>2, <2>1, <2>2, <2>4, AloneInside, UpdaterAssumption DEF NoFile
<1>4. CASE OpenNew(i)
  <2>1. /\ at'["new"] \in Inodes /\ handle' = [handle EXCEPT ![i] = at'["new"]]
        /\ disk' = [disk EXCEPT ![at'["new"]] = Partial]
        /\ at'["target"] = at["target"] /\ at["target"] # at'["new"]
        /\ at'["bak"] = at["bak"] /\ at["bak"] # at'["new"]
    BY <1>4, OpenEmptyDoes DEF OpenNew, Aside, Names
  <2>2. /\ disk'[at'.target] = disk[at.target] /\ disk'[at'.bak] = disk[at.bak]
        /\ handle'[i] = at'.new
    <3>1. at.bak \in Inodes
      BY <1>2, <1>4 DEF Progress, OpenNew, TypeOK, Names
    <3> QED
      BY <1>2, <2>1, <3>1 DEF TypeOK
  <2>3. pc[i] = "new" /\ pc'[i] = "new write"
    BY <1>4 DEF OpenNew, At, TypeOK
  <2>4. Progress(i)'
    BY <1>2, <2>1, <2>2, <2>3 DEF Progress
  <2> QED
    BY <1>2, <2>1, <2>2, <2>4, AloneInside, UpdaterAssumption DEF NoFile
<1> QED
  BY <1>3, <1>4

LEMMA AloneWrites ==
  ASSUME TypeOK, AloneInv, ~overlap, ~overlap', NEW i \in Installers, UNCHANGED setup,
         WriteBackup(i) \/ WriteNew(i)
  PROVE  AloneInv'
<1>1. /\ pc[i] \in Busy /\ UNCHANGED at
      /\ \A j \in Installers : j # i => pc'[j] = pc[j]
  BY DEF WriteBackup, WriteNew, CloseWith, At, TypeOK, Busy, Swapping
<1>2. /\ \A j \in Installers : j # i => pc'[j] \notin Busy
      /\ at.target \in Inodes /\ disk[at.target] \in Releases /\ Progress(i)
  BY <1>1, AloneOthers
<1>3. CASE WriteBackup(i)
  <2>1. /\ pc[i] = "backup write" /\ pc'[i] = "new" /\ handle[i] \in Inodes
        /\ \E left \in Written(old[i], disk[handle[i]]) : disk' = [disk EXCEPT ![handle[i]] = left]
    BY <1>3 DEF WriteBackup, CloseWith, Saves, At, TypeOK
  <2>2. handle[i] = at.bak /\ old[i] = disk[at.target] /\ disk[at.bak] = Partial
    BY <1>2, <2>1 DEF Progress
  <2>3. disk' = [disk EXCEPT ![at.bak] = disk[at.target]]
    BY <2>1, <2>2 DEF Written
  <2>4. at.bak # NoFile /\ disk'[at.bak] = disk[at.target] /\ disk'[at.target] = disk[at.target]
    BY <1>2, <2>1, <2>2, <2>3, UpdaterAssumption DEF TypeOK, NoFile
  <2>5. Progress(i)'
    BY <1>1, <2>1, <2>4 DEF Progress
  <2> QED
    BY <1>1, <1>2, <2>4, <2>5, AloneInside, UpdaterAssumption DEF NoFile
<1>4. CASE WriteNew(i)
  <2>1. /\ pc[i] = "new write" /\ pc'[i] = "verify" /\ handle[i] \in Inodes
        /\ \E left \in Written(data[i], disk[handle[i]]) : disk' = [disk EXCEPT ![handle[i]] = left]
    BY <1>4 DEF WriteNew, CloseWith, At, TypeOK
  <2>2. handle[i] = at.new /\ at.bak # NoFile /\ disk[at.bak] = disk[at.target]
    BY <1>2, <2>1 DEF Progress
  <2>3. at.new # at.target /\ at.new # at.bak
    BY <2>1, <2>2, UpdaterAssumption DEF TypeOK, Names, NoFile
  <2>4. disk'[at.bak] = disk[at.bak] /\ disk'[at.target] = disk[at.target]
    BY <2>1, <2>2, <2>3, <1>2 DEF TypeOK, Names
  <2>5. Progress(i)'
    BY <1>1, <2>1, <2>2, <2>4 DEF Progress
  <2> QED
    BY <1>1, <1>2, <2>4, <2>5, AloneInside, UpdaterAssumption DEF NoFile
<1> QED
  BY <1>3, <1>4

(* What it leaves cut short is its own, and not the program.               *)
LEMMA AloneBreaksOff ==
  ASSUME TypeOK, AloneInv, ~overlap, ~overlap', NEW i \in Installers, UNCHANGED setup,
         pc[i] \in Busy, Crash(i) \/ SwapFails(i)
  PROVE  AloneInv'
<1>1. /\ pc'[i] = "idle" /\ at'.target = at.target
      /\ \A j \in Installers : j # i => pc'[j] = pc[j]
      /\ UNCHANGED disk \/ (handle[i] # NoFile /\ disk' = [disk EXCEPT ![handle[i]] = Garbled])
  BY DEF Crash, SwapFails, Leave, CutShort, TypeOK, Names
<1>2. /\ \A j \in Installers : j # i => pc'[j] \notin Busy
      /\ at.target \in Inodes /\ disk[at.target] \in Releases /\ Progress(i)
  BY <1>1, AloneOthers
<1>3. handle[i] # NoFile => handle[i] # at.target
  <2>1. handle[i] # NoFile => pc[i] \in {"backup write", "new write"}
    BY DEF TypeOK
  <2>2. handle[i] # NoFile => handle[i] = at.bak \/ handle[i] = at.new
    BY <1>2, <2>1 DEF Progress
  <2> QED
    BY <2>2 DEF TypeOK, Names
<1>4. disk'[at.target] = disk[at.target]
  BY <1>1, <1>2, <1>3 DEF TypeOK
<1>5. Progress(i)'
  BY <1>1 DEF Progress
<1> QED
  BY <1>1, <1>2, <1>4, <1>5, AloneInside, UpdaterAssumption DEF NoFile

LEMMA AloneInvInstalls ==
  ASSUME TypeOK, AloneInv, NEW i \in Installers, Install(i) \/ Crash(i), UNCHANGED setup
  PROVE  AloneInv'
<1> SUFFICES ASSUME ~overlap' PROVE AloneInv'
  BY DEF AloneInv
<1>1. ~overlap
  BY DEF Install, FetchManifest, CheckManifest, Download, GiveUp, OpenBackup, WriteBackup, OpenNew,
         WriteNew, Reverify, Replace, SwapFails, Finish, Crash, CloseWith, histVars
<1>2. \A j \in Installers : j # i =>
        pc'[j] = pc[j] /\ want'[j] = want[j] /\ old'[j] = old[j]
  BY DEF TypeOK, At, Leave,
         Install, FetchManifest, CheckManifest, Download, GiveUp, OpenBackup, WriteBackup, OpenNew,
         WriteNew, Reverify, Replace, SwapFails, Finish, Crash, CloseWith
<1>3. CASE \/ FetchManifest(i) \/ CheckManifest(i) \/ GiveUp(i) \/ Finish(i)
           \/ (Crash(i) /\ pc[i] \notin Busy)
           \/ (Download(i) /\ Leave(i)) \/ (Reverify(i) /\ Leave(i))
  <2>1. UNCHANGED <<at, disk, overlap, replaced>>
    <3>1. ASSUME Download(i), Leave(i) PROVE UNCHANGED <<at, disk, overlap, replaced>>
      <4>1. ~At(i, "backup")
        BY <3>1 DEF At, Leave, TypeOK
      <4> QED
        BY <3>1, <4>1 DEF Download, fileVars
    <3>2. ASSUME Crash(i), pc[i] \notin Busy PROVE UNCHANGED <<at, disk, overlap, replaced>>
      <4>1. handle[i] = NoFile
        BY <3>2 DEF TypeOK, Busy, Swapping
      <4> QED
        BY <3>2, <4>1 DEF Crash, CutShort, histVars
    <3> QED
      BY <1>3, <3>1, <3>2 DEF FetchManifest, CheckManifest, GiveUp, Finish, Reverify, fileVars,
                              histVars
  <2>2. pc'[i] \notin Busy
    BY <1>3 DEF FetchManifest, CheckManifest, GiveUp, Finish, Crash, Leave, At, TypeOK, Busy, Swapping
  <2>3. \A j \in Installers : j # i => handle'[j] = handle[j]
    BY <1>3 DEF FetchManifest, CheckManifest, GiveUp, Finish, Crash, Leave, TypeOK
  <2> QED
    BY <1>2, <2>1, <2>2, <2>3, AloneOutside
<1>4. CASE Download(i) /\ ~Leave(i)
  <2>1. /\ UNCHANGED <<at, disk>> /\ pc'[i] = "backup"
        /\ \A j \in Installers : pc[j] \notin Busy
    BY <1>1, <1>4 DEF Download, At, TypeOK, fileVars, Busy
  <2>2. Progress(i)'
    BY <2>1 DEF Progress
  <2> QED
    BY <1>1, <1>2, <2>1, <2>2, AloneInside DEF AloneInv
<1>5. CASE OpenBackup(i) \/ OpenNew(i)
  BY <1>1, <1>5, AloneOpens
<1>6. CASE WriteBackup(i) \/ WriteNew(i)
  BY <1>1, <1>6, AloneWrites
<1>7. ASSUME pc[i] \in Busy
      PROVE  /\ \A j \in Installers : j # i => pc'[j] \notin Busy
             /\ at.target \in Inodes /\ disk[at.target] \in Releases /\ Progress(i)
  BY <1>1, <1>2, <1>7, AloneOthers
<1>8. CASE Reverify(i) /\ ~Leave(i)
  <2>1. /\ pc[i] = "verify" /\ pc'[i] = "replace" /\ UNCHANGED <<at, disk, want>>
        /\ Holds("new") = want[i]
    BY <1>8 DEF Reverify, At, TypeOK, fileVars, SameHash
  <2>2. pc[i] \in Busy
    BY <2>1 DEF Busy, Swapping
  <2>3. Nothing \notin Releases
    BY UpdaterAssumption DEF Nothing, Releases
  <2>4. want[i] \in Releases
    BY DEF TypeOK
  <2>5. at.new # NoFile /\ disk[at.new] = want[i]
    BY <2>1, <2>3, <2>4 DEF Holds
  <2>6. Progress(i)'
    BY <1>7, <2>1, <2>2, <2>5 DEF Progress
  <2> QED
    BY <1>1, <1>7, <2>1, <2>2, <2>6, AloneInside, UpdaterAssumption DEF NoFile
<1>9. CASE Replace(i)
  <2>1. /\ pc[i] = "replace" /\ pc'[i] = "installed" /\ UNCHANGED <<disk, want>>
        /\ at'.target = at.new /\ at'.bak = at.bak /\ replaced' = Holds("target")
    BY <1>9 DEF Replace, At, TypeOK, Names
  <2>2. pc[i] \in Busy
    BY <2>1 DEF Busy, Swapping
  <2>3. /\ at.new # NoFile /\ disk[at.new] = want[i]
        /\ at.bak # NoFile /\ disk[at.bak] = disk[at.target]
    BY <1>7, <2>1, <2>2 DEF Progress
  <2>4. replaced' = disk[at.target]
    BY <1>7, <2>1, <2>2, UpdaterAssumption DEF Holds, NoFile
  <2>5. Progress(i)'
    BY <2>1, <2>3, <2>4 DEF Progress
  <2>6. disk'[at'.target] \in Releases
    <3>1. want[i] \in Releases
      BY DEF TypeOK
    <3> QED
      BY <2>1, <2>3, <3>1
  <2>7. UNCHANGED setup
    OBVIOUS
  <2> QED
    BY <1>1, <1>7, <2>1, <2>2, <2>3, <2>5, <2>6, <2>7, AloneInside
<1>10. CASE SwapFails(i) \/ (Crash(i) /\ pc[i] \in Busy)
  <2>1. pc[i] \in Busy
    BY <1>10 DEF SwapFails, Busy
  <2> QED
    BY <1>1, <1>10, <2>1, AloneBreaksOff
<1> QED
  BY <1>3, <1>4, <1>5, <1>6, <1>8, <1>9, <1>10 DEF Install

(* What a setup may count on: if no installer was about during it, what it *)
(* copied goes into an empty file and is still there when it has copied    *)
(* the rest.                                                               *)
CopyInv ==
  setup # "none" /\ ~mixed =>
    /\ \A i \in Installers : pc[i] \notin Busy
    /\ setup = "copy" /\ ~hurried => disk[at.target] = Partial
    /\ setup = "rest" /\ ~hurried => disk[at.target] = source

LEMMA AloneInvStep ==
  ASSUME TypeOK, SourceOK, OfferInv, CopyInv, AloneInv, [InstallationNext]_allVars
  PROVE  AloneInv'
<1>1. ASSUME NEW i \in Installers, Install(i) \/ Crash(i), UpdateStep PROVE AloneInv'
  BY <1>1, AloneInvInstalls DEF UpdateStep
<1>2. CASE ((\E file \in DOMAIN served : Publish(file)) /\ UpdateStep) \/ UNCHANGED allVars
  <2>1. UNCHANGED <<setup, overlap, replaced, at, disk, pc, handle, old, want>>
    BY <1>2 DEF UpdateStep, Publish, allVars, vars, setupVars, installerVars, fileVars, histVars
  <2> QED
    BY <2>1 DEF AloneInv, Progress
<1>3. CASE OpenProgram \/ TryFolder
  BY <1>3 DEF OpenProgram, TryFolder, AloneInv
<1>4. CASE CopyProgram
  BY <1>4 DEF CopyProgram, AloneInv, othersVars
<1>5. CASE CopyRest
  <2>1. setup = "rest" /\ setup' = "shortcuts" /\ UNCHANGED <<at, disk, pc>>
    BY <1>5, StepOrder DEF CopyRest, SetupGoesOn, fileVars, othersVars, installerVars
  <2>2. overlap
    BY <2>1 DEF AloneInv
  <2>3. ASSUME ~overlap' PROVE ~hurried /\ ~mixed
    BY <1>5, <2>2, <2>3 DEF CopyRest
  <2>4. ASSUME ~hurried, ~mixed
        PROVE  /\ \A i \in Installers : pc[i] \notin Busy
               /\ disk[at.target] \in Releases /\ at.target # NoFile
    BY <2>1, <2>4 DEF CopyInv, OfferInv, SourceOK
  <2>5. ASSUME \A i \in Installers : pc[i] \notin Busy
        PROVE  \A i \in Installers : Progress(i)'
    BY <2>1, <2>5 DEF Progress, Busy, Swapping
  <2> QED
    BY <2>1, <2>3, <2>4, <2>5 DEF AloneInv
<1>6. CASE \/ \E release \in Releases : BeginSetup(release)
           \/ InstallShortcuts \/ RegisterApp \/ WriteInstallInfo
           \/ BeginRemoval \/ RemoveShortcuts \/ RemoveEntry
  <2>1. UNCHANGED <<overlap, replaced, at, disk, pc, handle, old, want>>
    BY <1>6 DEF BeginSetup, InstallShortcuts, RegisterApp, WriteInstallInfo, BeginRemoval,
                RemoveShortcuts, RemoveEntry, vars, installerVars, fileVars, histVars
  <2>2. setup \notin {"copy", "rest"} => setup' \notin {"copy", "rest"}
    <3>1. Head(InstallSteps) = "program"
      BY DEF InstallSteps
    <3> QED
      BY <1>6, <3>1, StepOrder DEF BeginSetup, InstallShortcuts, RegisterApp, WriteInstallInfo,
         BeginRemoval, RemoveShortcuts, RemoveEntry, SetupGoesOn, SetupEnds
  <2> QED
    BY <2>1, <2>2 DEF AloneInv, Progress
<1>7. CASE SetupThrows
  <2>1. UNCHANGED <<overlap, replaced, at, pc, handle, old, want>> /\ setup' = "none"
    BY <1>7 DEF SetupThrows, SetupEnds, othersVars, installerVars
  <2>2. CASE setup = "copy"
    BY <2>1, <2>2 DEF AloneInv
  <2>3. CASE setup # "copy"
    <3>1. UNCHANGED disk
      BY <1>7, <2>3 DEF SetupThrows
    <3> QED
      BY <2>1, <3>1 DEF AloneInv, Progress
  <2> QED
    BY <2>2, <2>3
<1> QED
  BY <1>1, <1>2, <1>3, <1>4, <1>5, <1>6, <1>7
  DEF InstallationNext, UpdateStep, Next, SetupStep, RemovalStep, allVars

LEMMA CopyInvStep ==
  ASSUME TypeOK, SourceOK, OfferInv, CopyInv, [InstallationNext]_allVars
  PROVE  CopyInv'
<1>1. CASE UpdateStep
  <2> SUFFICES ASSUME setup' # "none", ~mixed'
               PROVE  /\ \A i \in Installers : pc'[i] \notin Busy
                      /\ setup' = "copy" /\ ~hurried' => disk'[at'.target] = Partial
                      /\ setup' = "rest" /\ ~hurried' => disk'[at'.target] = source'
    BY DEF CopyInv
  <2>1. UNCHANGED <<setup, source, hurried>> /\ ~mixed /\ ~SomeInstalls'
    BY <1>1 DEF UpdateStep
  <2>2. \A i \in Installers : pc[i] \notin Busy /\ pc'[i] \notin Busy
    BY <2>1 DEF CopyInv, SomeInstalls, Busy
  <2>3. UNCHANGED <<at, disk>>
    <3>1. ASSUME NEW i \in Installers, Crash(i) PROVE UNCHANGED <<at, disk>>
      <4>1. handle[i] = NoFile
        BY <2>2 DEF TypeOK, Busy, Swapping
      <4> QED
        BY <3>1, <4>1 DEF Crash, CutShort
    <3>2. ASSUME NEW i \in Installers, Install(i) PROVE UNCHANGED <<at, disk>>
      BY <2>2, <3>2
      DEF Install, FetchManifest, CheckManifest, Download, GiveUp, OpenBackup, WriteBackup, OpenNew,
          WriteNew, Reverify, Replace, SwapFails, Finish, fileVars, Busy, Swapping
    <3> QED
      BY <1>1, <3>1, <3>2 DEF UpdateStep, Next, Publish, fileVars
  <2> QED
    BY <2>1, <2>2, <2>3 DEF CopyInv
<1>2. ASSUME NEW release \in Releases, BeginSetup(release)
      PROVE  CopyInv'
  <2>1. setup' = "program"
    BY <1>2 DEF BeginSetup, InstallSteps
  <2>2. mixed' = SomeInstalls /\ UNCHANGED pc
    BY <1>2 DEF BeginSetup, vars, installerVars
  <2> QED
    BY <2>1, <2>2 DEF CopyInv, SomeInstalls, Busy
<1>3. CASE OpenProgram
  <2>1. setup' = "copy" /\ setup # "none" /\ UNCHANGED <<pc, mixed, hurried>>
    BY <1>3, StepOrder DEF OpenProgram, SetupGoesOn, othersVars, installerVars
  <2>2. disk'[at'.target] = Partial
    <3>1. CASE at.target # NoFile /\ disk' = [disk EXCEPT ![at.target] = Partial] /\ UNCHANGED at
      BY <3>1 DEF TypeOK, Names
    <3>2. ASSUME NEW f \in Free, at' = [at EXCEPT !.target = f], disk' = [disk EXCEPT ![f] = Partial]
          PROVE  disk'[at'.target] = Partial
      BY <3>2 DEF TypeOK, Names, Free
    <3> QED
      BY <1>3, <3>1, <3>2 DEF OpenProgram
  <2> QED
    BY <2>1, <2>2 DEF CopyInv
<1>4. CASE CopyProgram
  <2>1. /\ setup = "copy" /\ setup' = "rest" /\ UNCHANGED <<pc, mixed, hurried, source, at>>
        /\ \E left \in Written(source, disk[at.target]) : disk' = [disk EXCEPT ![at.target] = left]
    BY <1>4, StepOrder DEF CopyProgram, SetupGoesOn, othersVars, installerVars
  <2>2. ASSUME ~hurried, ~mixed PROVE disk'[at.target] = source
    <3>1. disk[at.target] = Partial /\ at.target \in Inodes
      BY <2>1, <2>2 DEF CopyInv, OfferInv, TypeOK, Names
    <3>2. disk' = [disk EXCEPT ![at.target] = source]
      BY <2>1, <3>1 DEF Written
    <3> QED
      BY <3>1, <3>2 DEF TypeOK
  <2> QED
    BY <2>1, <2>2 DEF CopyInv
<1>5. CASE CopyRest \/ InstallShortcuts \/ RegisterApp
  <2>1. setup # "none" /\ setup' \notin {"copy", "rest"} /\ UNCHANGED <<pc, mixed, hurried>>
    BY <1>5, StepOrder DEF CopyRest, InstallShortcuts, RegisterApp, SetupGoesOn, vars,
       othersVars, installerVars
  <2> QED
    BY <2>1 DEF CopyInv
<1>9. CASE WriteInstallInfo \/ SetupThrows
  BY <1>9 DEF WriteInstallInfo, SetupThrows, SetupEnds, CopyInv
<1>6. CASE BeginRemoval \/ RemoveShortcuts \/ RemoveEntry
  <2>1. UNCHANGED <<pc, mixed, setup, source, at, disk>>
    BY <1>6 DEF BeginRemoval, RemoveShortcuts, RemoveEntry, vars, installerVars, fileVars
  <2>2. hurried' = (hurried \/ setup # "none") \/ UNCHANGED hurried
    BY <1>6 DEF BeginRemoval, RemoveShortcuts, RemoveEntry
  <2>3. ~hurried' => ~hurried
    BY <2>2, Zenon
  <2> QED
    BY <2>1, <2>3 DEF CopyInv
<1>7. CASE TryFolder
  <2>1. setup = "none" \/ hurried
    BY <1>7 DEF TryFolder, OfferInv
  <2>2. UNCHANGED <<pc, mixed, setup, hurried>>
    BY <1>7 DEF TryFolder, othersVars, installerVars
  <2> QED
    BY <2>1, <2>2 DEF CopyInv
<1>8. CASE UNCHANGED allVars
  BY <1>8 DEF allVars, setupVars, vars, installerVars, fileVars, CopyInv
<1> QED
  BY <1>1, <1>2, <1>3, <1>4, <1>5, <1>6, <1>7, <1>8, <1>9
  DEF InstallationNext, SetupStep, RemovalStep

FolderInv == TypeOK /\ SourceOK /\ OfferInv /\ CopyInv /\ AloneInv

LEMMA FolderInvAlways == InstallationSpec => []FolderInv
<1>1. InstallationInit => FolderInv
  <2> SUFFICES ASSUME InstallationInit PROVE FolderInv
    OBVIOUS
  <2>1. TypeOK
    BY InitTypeOK
  <2>2. /\ \A i \in Installers : pc[i] = "idle" /\ old[i] = Nothing
        /\ at.target = 1 /\ disk = [f \in Inodes |-> IF f = 1 THEN 0 ELSE Nothing]
        /\ setup = "none" /\ removal = "none" /\ rest /\ source = 0 /\ ~overlap
    BY DEF InstallationInit, Init
  <2>3. 0 \in Releases /\ 1 \in Inodes /\ 1 # NoFile
    BY UpdaterAssumption DEF Releases, NoFile
  <2>4. SourceOK /\ OfferInv /\ CopyInv
    BY <2>2, <2>3 DEF SourceOK, OfferInv, CopyInv, Swapping
  <2>5. AloneInv
    BY <2>2, <2>3 DEF AloneInv, Progress, Busy, Swapping
  <2> QED
    BY <2>1, <2>4, <2>5 DEF FolderInv
<1>2. FolderInv /\ [InstallationNext]_allVars => FolderInv'
  <2> SUFFICES ASSUME FolderInv, [InstallationNext]_allVars PROVE FolderInv'
    OBVIOUS
  <2>1. TypeOK'
    <3>1. \/ SetupStep \/ RemovalStep
          \/ Next \/ UNCHANGED vars
      BY DEF InstallationNext, UpdateStep, allVars
    <3> QED
      BY <3>1, UpdateTypes, FolderTypes DEF FolderInv
  <2> QED
    BY <2>1, SourceOKStep, OfferInvStep, CopyInvStep, AloneInvStep DEF FolderInv
<1> QED
  BY <1>1, <1>2, PTL DEF InstallationSpec

(* However an installer, a setup or a removal ends, the program is one     *)
(* whole release as long as no two of them were at work together.          *)
THEOREM AlwaysWhole == InstallationSpec => []TargetWhole
<1>1. FolderInv => TargetWhole
  BY DEF FolderInv, AloneInv, TargetWhole, Holds
<1> QED
  BY <1>1, FolderInvAlways, PTL

(* "keep .bak": beside what an installer has put there lies what it        *)
(* replaced.                                                               *)
THEOREM BackupAlwaysPrior == InstallationSpec => []BackupIsPrior
<1>1. FolderInv => BackupIsPrior
  BY DEF FolderInv, AloneInv, Progress, BackupIsPrior, Holds
<1> QED
  BY <1>1, FolderInvAlways, PTL
=============================================================================
