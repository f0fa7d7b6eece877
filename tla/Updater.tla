------------------------------ MODULE Updater ------------------------------
(***************************************************************************)
(* The self-update: check_update, download_and_install and the file swap,  *)
(* run by any number of installers (the update dialog, a second dialog     *)
(* after the first was closed, secvitals --update) on one installation,    *)
(* against a release source whose three files change one at a time.        *)
(*                                                                         *)
(* The swap is modelled on inodes: open(.., "wb") empties the file at once *)
(* and fills it later, from its start, os.replace renames a file that      *)
(* another installer may still have open.  A version number stands for the *)
(* bytes of that release, so equal hashes are equal numbers.               *)
(***************************************************************************)
EXTENDS Integers, FiniteSets

CONSTANTS
  Installers,   \* threads and processes that install
  Latest,       \* the newest release; 0 is the one installed at first
  Inodes,       \* bound: files that can exist at one time
  MaxInstalls,  \* bound: attempts in one behaviour
  MaxCrashes    \* bound: crashes in one behaviour

ASSUME UpdaterAssumption ==
  /\ IsFiniteSet(Installers)
  /\ Latest \in Nat
  /\ Inodes \in SUBSET (Nat \ {0}) /\ 1 \in Inodes
  /\ MaxInstalls \in Nat /\ MaxCrashes \in Nat

VARIABLES
  served,    \* the release whose manifest, signature and artifact are served
  pc,        \* where each installer is
  running,   \* __version__ of its process
  want,      \* the version its verified manifest names
  data,      \* the bytes it has downloaded
  old,       \* the bytes of the installed file, as it read them
  handle,    \* the file it is writing
  at,        \* the inode at target, target.new and target.bak
  disk,      \* what each inode holds
  attempts,  \* attempts so far
  crashes,   \* crashes so far
  overlap,   \* history: two installers were in the swap at one time, or
             \* somebody else is at work in the folder
  replaced   \* history: what target held before its last replacement

installerVars == <<pc, running, want, data, old, handle>>
fileVars      == <<at, disk>>
countVars     == <<attempts, crashes>>
histVars      == <<overlap, replaced>>
vars == <<served, installerVars, fileVars, countVars, histVars>>

-----------------------------------------------------------------------------

Releases == 0..Latest
Partial  == -1      \* a file that was emptied and not filled yet
Garbled  == -2      \* bytes that are no release: cut short, or mixed up
Nothing  == -3

NoFile == 0

Names == {"target", "new", "bak"}

Holds(name) == IF at[name] = NoFile THEN Nothing ELSE disk[at[name]]

Swapping == {"backup", "backup write", "new", "new write", "verify", "replace"}

Init ==
  /\ served = [manifest |-> 0, sig |-> 0, artifact |-> 0]
  /\ pc = [i \in Installers |-> "idle"]
  /\ running = [i \in Installers |-> 0]
  /\ want = [i \in Installers |-> 0]
  /\ data = [i \in Installers |-> Nothing]
  /\ old = [i \in Installers |-> Nothing]
  /\ handle = [i \in Installers |-> NoFile]
  /\ at = [target |-> 1, new |-> NoFile, bak |-> NoFile]
  /\ disk = [f \in Inodes |-> IF f = 1 THEN 0 ELSE Nothing]
  /\ attempts = 0 /\ crashes = 0
  /\ overlap = FALSE /\ replaced = Nothing

(* The next release appears, file by file, in any order.                   *)
Publish(file) ==
  /\ served[file] < Latest
  /\ served' = [served EXCEPT ![file] = @ + 1]
  /\ UNCHANGED <<installerVars, fileVars, countVars, histVars>>

-----------------------------------------------------------------------------
(* check_update and the download.                                          *)

(* The attempt is over: its locals go, its file is closed.                 *)
Leave(i) ==
  /\ pc' = [pc EXCEPT ![i] = "idle"]
  /\ want' = [want EXCEPT ![i] = 0]
  /\ data' = [data EXCEPT ![i] = Nothing]
  /\ old' = [old EXCEPT ![i] = Nothing]
  /\ handle' = [handle EXCEPT ![i] = NoFile]

At(i, place) == pc' = [pc EXCEPT ![i] = place]

(* What a fetch can return: a cache may still serve an older release.      *)
Fetched(file) == 0..served[file] \cup {Garbled}

(* The manifest is fetched.                                                *)
FetchManifest(i) ==
  /\ pc[i] = "idle"
  /\ attempts < MaxInstalls
  /\ attempts' = attempts + 1
  /\ \E got \in Fetched("manifest") : data' = [data EXCEPT ![i] = got]
  /\ At(i, "signature")
  /\ UNCHANGED <<served, running, want, old, handle, fileVars, crashes, histVars>>

(* verify_rsa_sha256: the signature of a release verifies its manifest.    *)
Verifies(manifest, sig) == manifest # Garbled /\ sig = manifest

(* Mutant: a release is news if it is not the running one.                 *)
Differs(remote, local) == remote # local

(* _version_tuple of the manifest against that of the running code.        *)
IsNews(remote, local) == remote > local

(* The signature is fetched, the manifest verified and compared.           *)
CheckManifest(i) ==
  /\ pc[i] = "signature"
  /\ \E sig \in Fetched("sig") :
       IF Verifies(data[i], sig) /\ IsNews(data[i], running[i])
       THEN /\ want' = [want EXCEPT ![i] = data[i]]
            /\ At(i, "download")
            /\ UNCHANGED <<data, old, handle>>
       ELSE Leave(i)
  /\ UNCHANGED <<served, running, fileVars, countVars, histVars>>

(* hmac.compare_digest of the two SHA-256                                  *)
SameHash(got, wanted) == got = wanted

(* The user goes on, the artifact is fetched and its hash compared.        *)
Download(i) ==
  /\ pc[i] = "download"
  /\ \E got \in Fetched("artifact") :
       IF SameHash(got, want[i])
       THEN /\ data' = [data EXCEPT ![i] = got]
            /\ At(i, "backup")
            /\ overlap' = (overlap \/ \E j \in Installers : pc[j] \in Swapping \cup {"installed"})
            /\ UNCHANGED <<want, old, handle>>
       ELSE Leave(i) /\ UNCHANGED overlap
  /\ UNCHANGED <<served, running, fileVars, countVars, replaced>>

(* A download fails or the user lets the offer lie.                        *)
GiveUp(i) ==
  /\ pc[i] \in {"signature", "download"}
  /\ Leave(i)
  /\ UNCHANGED <<served, running, fileVars, countVars, histVars>>

-----------------------------------------------------------------------------
(* The file swap.                                                          *)

Free == {f \in Inodes : /\ \A name \in Names : at[name] # f
                        /\ \A j \in Installers : handle[j] # f}

(* open(name, "wb"): an existing file is emptied, its inode kept.          *)
OpenEmpty(i, name) ==
  \/ /\ at[name] # NoFile
     /\ handle' = [handle EXCEPT ![i] = at[name]]
     /\ disk' = [disk EXCEPT ![at[name]] = Partial]
     /\ UNCHANGED at
  \/ /\ at[name] = NoFile
     /\ \E f \in Free :
          /\ \A g \in Free : f <= g
          /\ handle' = [handle EXCEPT ![i] = f]
          /\ disk' = [disk EXCEPT ![f] = Partial]
          /\ at' = [at EXCEPT ![name] = f]

(* The current file is read and .bak opened.                               *)
OpenBackup(i) ==
  /\ pc[i] = "backup"
  /\ at.target # NoFile
  /\ old' = [old EXCEPT ![i] = Holds("target")]
  /\ OpenEmpty(i, "bak")
  /\ At(i, "backup write")
  /\ UNCHANGED <<served, running, want, data, countVars, histVars>>

(* What is in a file after the bytes were written over what it held then,  *)
(* from its start: of a longer file the tail stays.                        *)
Written(bytes, found) == IF found \in {Partial, bytes} THEN {bytes} ELSE {bytes, Garbled}

(* The bytes are written and the file is closed.  It was emptied when it   *)
(* was opened; another installer may have filled it since.                 *)
CloseWith(i, bytes) ==
  /\ \E left \in Written(bytes, disk[handle[i]]) : disk' = [disk EXCEPT ![handle[i]] = left]
  /\ handle' = [handle EXCEPT ![i] = NoFile]
  /\ UNCHANGED <<served, running, want, data, old, at, countVars, histVars>>

(* Mutant: what is kept is the download, not the file it replaces.         *)
SavesDownload(i) == data[i]

Saves(i) == old[i]

WriteBackup(i) ==
  /\ pc[i] = "backup write"
  /\ CloseWith(i, Saves(i))
  /\ At(i, "new")

(* Mutant: the new version is written over the old one.                    *)
InPlace == "target"

Aside == "new"

OpenNew(i) ==
  /\ pc[i] = "new"
  /\ OpenEmpty(i, Aside)
  /\ At(i, "new write")
  /\ UNCHANGED <<served, running, want, data, old, countVars, histVars>>

WriteNew(i) ==
  /\ pc[i] = "new write"
  /\ CloseWith(i, data[i])
  /\ At(i, "verify")

(* The bytes on disk are hashed again; no file there, or another one, ends *)
(* the attempt.  A wrong one is left where it is.                          *)
Reverify(i) ==
  /\ pc[i] = "verify"
  /\ IF SameHash(Holds("new"), want[i]) THEN At(i, "replace") /\ UNCHANGED <<want, data, old, handle>>
     ELSE Leave(i)
  /\ UNCHANGED <<served, running, fileVars, countVars, histVars>>

(* os.replace(tmp, target).                                                *)
Replace(i) ==
  /\ pc[i] = "replace"
  /\ at.new # NoFile
  /\ replaced' = Holds("target")
  /\ at' = [at EXCEPT !.target = at.new, !.new = NoFile]
  /\ At(i, "installed")
  /\ UNCHANGED <<served, running, want, data, old, handle, disk, countVars, overlap>>

(* Who ends amid a write leaves a file that is empty or cut short.         *)
CutShort(i) ==
  \/ UNCHANGED disk
  \/ handle[i] # NoFile /\ disk' = [disk EXCEPT ![handle[i]] = Garbled]

(* An OSError in the swap: the disk is full, the file is gone, Windows     *)
(* will not replace an open file.  .new is removed and the attempt over.   *)
SwapFails(i) ==
  /\ pc[i] \in Swapping
  /\ at' = [at EXCEPT !.new = NoFile]
  /\ CutShort(i)
  /\ Leave(i)
  /\ UNCHANGED <<served, running, countVars, histVars>>

(* "Restart the console to run the new version"; a broken file will not    *)
(* start, and the old process may as well stay.                            *)
Finish(i) ==
  /\ pc[i] = "installed"
  /\ \/ UNCHANGED running
     \/ Holds("target") \in Releases /\ running' = [running EXCEPT ![i] = Holds("target")]
  /\ Leave(i)
  /\ UNCHANGED <<served, fileVars, countVars, histVars>>

(* The process ends anywhere.                                              *)
Crash(i) ==
  /\ pc[i] # "idle"
  /\ crashes < MaxCrashes
  /\ crashes' = crashes + 1
  /\ CutShort(i)
  /\ Leave(i)
  /\ UNCHANGED <<served, running, at, attempts, histVars>>

-----------------------------------------------------------------------------

Install(i) ==
  \/ FetchManifest(i)
  \/ CheckManifest(i)
  \/ Download(i)
  \/ GiveUp(i)
  \/ OpenBackup(i)
  \/ WriteBackup(i)
  \/ OpenNew(i)
  \/ WriteNew(i)
  \/ Reverify(i)
  \/ Replace(i)
  \/ SwapFails(i)
  \/ Finish(i)

Next ==
  \/ \E i \in Installers : Install(i) \/ Crash(i)
  \/ \E file \in DOMAIN served : Publish(file)

Spec == Init /\ [][Next]_vars

-----------------------------------------------------------------------------
(* Properties.                                                             *)

(* Every variable holds what the code can hold there: an installer that    *)
(* writes has a file, and the three names never share one.                 *)
TypeOK ==
  /\ served \in [{"manifest", "sig", "artifact"} -> Releases]
  /\ pc \in [Installers -> Swapping \cup {"idle", "signature", "download", "installed"}]
  /\ running \in [Installers -> Releases]
  /\ want \in [Installers -> Releases]
  /\ data \in [Installers -> Releases \cup {Partial, Garbled, Nothing}]
  /\ old \in [Installers -> Releases \cup {Partial, Garbled, Nothing}]
  /\ handle \in [Installers -> Inodes \cup {NoFile}]
  /\ \A i \in Installers : pc[i] \in {"backup write", "new write"} <=> handle[i] # NoFile
  /\ at \in [Names -> Inodes \cup {NoFile}]
  /\ \A n, m \in Names : at[n] = at[m] /\ at[n] # NoFile => n = m
  /\ disk \in [Inodes -> Releases \cup {Partial, Garbled, Nothing}]
  /\ attempts \in 0..MaxInstalls /\ crashes \in 0..MaxCrashes
  /\ overlap \in BOOLEAN /\ replaced \in Releases \cup {Partial, Garbled, Nothing}

(* However an installer ends -- crash, full disk, mixed-up release files,  *)
(* a backup or a download cut short -- the installed file is one whole     *)
(* release, as long as no two writers of the folder were at work together. *)
TargetWhole == ~overlap => Holds("target") \in Releases

(* "keep .bak": an installer that is done has left beside the new file the *)
(* one it took the place of.                                               *)
BackupIsPrior ==
  ~overlap => \A i \in Installers : pc[i] = "installed" =>
                Holds("bak") = replaced /\ Holds("target") = want[i]

(* "no signed-but-old rollback": a file that takes the place of another    *)
(* is a release newer than the code that installs it, and one that a       *)
(* verified manifest named.                                                *)
NoRollback ==
  [][at'.target # at.target /\ NoFile \notin {at.target, at'.target} =>
       \E i \in Installers : /\ pc[i] = "replace" /\ pc'[i] = "installed"
                             /\ want[i] > running[i]
                             /\ want[i] <= served.manifest /\ want[i] <= served.sig]_vars

(* What the docs say, which the code does not do:                          *)

(* "never leaves a partial file in place".                                 *)
NeverPartial == Holds("target") \notin {Partial, Garbled}
=============================================================================
