----------------------------- MODULE StateFile -----------------------------
(***************************************************************************)
(* The bridge's small state files (bridge state_file.rs; history/settings.rs *)
(* reads its file the same way): a save writes a temp file of its own, syncs *)
(* it, renames it over the old one and syncs the directory; a reader opens  *)
(* the file and checks the one it opened.  A crash keeps what was synced    *)
(* and may keep or lose a later rename.                                     *)
(*                                                                         *)
(* A file in place is the number of renames that led to it.                 *)
(***************************************************************************)
EXTENDS Naturals, FiniteSets

CONSTANTS
  Savers,          \* concurrent saves, of this process or another
  Readers,
  Retries,         \* REPLACED_RETRIES
  MaxSaves, MaxCrashes

ASSUME StateFileAssumption == Retries \in Nat \ {0} /\ MaxSaves \in Nat /\ MaxCrashes \in Nat

VARIABLES
  named, onDisk,   \* the file at the path, and the one a crash surely keeps at least
  whole,           \* the files whose content was synced before their rename
  saver,           \* each save's step, temp file, and rename
  temps,           \* temp files there are, by the number of the save that made them
  returned,        \* history: the newest file whose save returned Ok
  saves, crashes,
  reader           \* each read's step, the file it opened, its tries; history: the file in place at its start

fileVars == <<named, onDisk, whole, saver, temps, returned, saves, crashes, reader>>

FileIdle == [at |-> "idle", temp |-> 0, file |-> 0]
NotReading == [at |-> "idle", open |-> 0, tries |-> 0, since |-> 0]

-----------------------------------------------------------------------------
(* write *)

\* The temp file is created O_EXCL, under a name no other save uses
SaveCreates(s) ==
  /\ saver[s].at = "idle" /\ saves < MaxSaves
  /\ saves' = saves + 1 /\ temps' = temps \cup {saves'}
  /\ saver' = [saver EXCEPT ![s] = [at |-> "created", temp |-> saves', file |-> 0]]
  /\ UNCHANGED <<named, onDisk, whole, returned, crashes, reader>>

\* set_permissions, write_all, sync_all
SaveSyncs(s) ==
  /\ saver[s].at = "created"
  /\ saver' = [saver EXCEPT ![s].at = "synced"]
  /\ UNCHANGED <<named, onDisk, whole, temps, returned, saves, crashes, reader>>

\* A failed step removes the temp file, and the file in place stays
SaveFails(s) ==
  /\ saver[s].at \in {"created", "synced"}
  /\ saver' = [saver EXCEPT ![s] = FileIdle] /\ temps' = temps \ {saver[s].temp}
  /\ UNCHANGED <<named, onDisk, whole, returned, saves, crashes, reader>>

Renamed(s) ==
  /\ saver[s].temp \in temps
  /\ named' = named + 1 /\ temps' = temps \ {saver[s].temp}
  /\ whole' = IF saver[s].at = "synced" THEN whole \cup {named'} ELSE whole
  /\ saver' = [saver EXCEPT ![s] = [at |-> "renamed", temp |-> @.temp, file |-> named']]
  /\ UNCHANGED <<onDisk, returned, saves, crashes, reader>>

SaveRenames(s) == saver[s].at = "synced" /\ Renamed(s)

Returned(s) ==
  /\ saver[s].at = "renamed"
  /\ returned' = IF saver[s].file > returned THEN saver[s].file ELSE returned
  /\ saver' = [saver EXCEPT ![s] = FileIdle]
  /\ UNCHANGED <<named, whole, temps, saves, crashes, reader>>

\* Mutant: Ok without syncing the directory
SaveReturnsUnsynced(s) == Returned(s) /\ UNCHANGED onDisk

\* The directory is synced, whatever it names by then
SaveReturns(s) == Returned(s) /\ onDisk' = named

\* Opening or syncing the directory fails: an error, with the new file in place
SaveFailsLate(s) ==
  /\ saver[s].at = "renamed"
  /\ saver' = [saver EXCEPT ![s] = FileIdle]
  /\ UNCHANGED <<named, onDisk, whole, temps, returned, saves, crashes, reader>>

-----------------------------------------------------------------------------
(* read_with and read_once *)

ReadOpens(r) ==
  LET first == reader[r].at = "idle"
  IN  /\ reader[r].at \in {"idle", "again"}
      /\ reader' = [reader EXCEPT ![r] = [at |-> "opened", open |-> named,
                                          tries |-> IF first THEN 1 ELSE @.tries + 1,
                                          since |-> IF first THEN named ELSE @.since]]
      /\ UNCHANGED <<named, onDisk, whole, saver, temps, returned, saves, crashes>>

\* nlink = 0: the file was replaced after it was opened
Replaced(r) == reader[r].open # named

\* Mutant: one try too few
ReadChecksOnce(r) ==
  /\ reader[r].at = "opened"
  /\ reader' = [reader EXCEPT ![r].at = IF ~Replaced(r) THEN "done"
                                        ELSE IF reader[r].tries + 1 < Retries THEN "again" ELSE "refused"]
  /\ UNCHANGED <<named, onDisk, whole, saver, temps, returned, saves, crashes>>

ReadChecks(r) ==
  /\ reader[r].at = "opened"
  /\ reader' = [reader EXCEPT ![r].at = IF ~Replaced(r) THEN "done"
                                        ELSE IF reader[r].tries < Retries THEN "again" ELSE "refused"]
  /\ UNCHANGED <<named, onDisk, whole, saver, temps, returned, saves, crashes>>

ReadEnds(r) ==
  /\ reader[r].at \in {"done", "refused"}
  /\ reader' = [reader EXCEPT ![r] = NotReading]
  /\ UNCHANGED <<named, onDisk, whole, saver, temps, returned, saves, crashes>>

-----------------------------------------------------------------------------
\* The machine stops, and nobody is left
Crash ==
  /\ crashes < MaxCrashes /\ crashes' = crashes + 1
  /\ named' \in onDisk..named /\ onDisk' = named'
  /\ saver' = [s \in Savers |-> FileIdle] /\ reader' = [r \in Readers |-> NotReading]
  /\ whole' = whole \cap 0..named'
  /\ UNCHANGED <<temps, returned, saves>>

LiveTemps == {saver[s].temp : s \in {x \in Savers : saver[x].at \in {"created", "synced"}}}

\* remove_settings_leftovers
RemoveLeftovers ==
  /\ temps # LiveTemps /\ temps' = LiveTemps
  /\ UNCHANGED <<named, onDisk, whole, saver, returned, saves, crashes, reader>>

StateFileInit ==
  /\ named = 0 /\ onDisk = 0 /\ whole = {0} /\ temps = {} /\ returned = 0
  /\ saver = [s \in Savers |-> FileIdle] /\ saves = 0 /\ crashes = 0
  /\ reader = [r \in Readers |-> NotReading]

StateFileNext ==
  \/ \E s \in Savers : \/ SaveCreates(s) \/ SaveSyncs(s) \/ SaveFails(s)
                       \/ SaveRenames(s) \/ SaveReturns(s) \/ SaveFailsLate(s)
  \/ \E r \in Readers : ReadOpens(r) \/ ReadChecks(r) \/ ReadEnds(r)
  \/ Crash \/ RemoveLeftovers

StateFileSpec == StateFileInit /\ [][StateFileNext]_fileVars

-----------------------------------------------------------------------------
(* Properties *)

\* Values are of their types, and no two saves in flight share a temp file (temp_path).
StateFileTypeOK ==
  /\ {named, onDisk, returned, saves, crashes} \subseteq Nat
  /\ \A s \in Savers : saver[s].at \in {"idle", "created", "synced", "renamed"}
  /\ \A r \in Readers : reader[r].at \in {"idle", "again", "opened", "done", "refused"}
  /\ \A s, t \in Savers : s # t /\ {saver[s].at, saver[t].at} \subseteq {"created", "synced"} =>
       saver[s].temp # saver[t].temp

\* "a crash leaves the old file or the new one" (state_file.rs): every file a crash may
\* leave at the path was synced whole before it got there.
CrashFindsWholeFile == onDisk..named \subseteq whole

\* A save that returned Ok is never undone: a crash keeps it or one that replaced it.
OkSaveOutlivesCrash == onDisk >= returned

\* A save in flight finds its temp file when it renames it: leftovers are removed only
\* after their process is gone (remove_settings_leftovers).
TempOfLiveSaveStays == LiveTemps \subseteq temps

\* A read is refused only when the file was replaced as often as it tried, never because
\* one save came in between.
ReadsSurviveSaves == \A r \in Readers : reader[r].at = "refused" => named - reader[r].since >= Retries

\* What saves, reads and cleanups owe each other and a crash (state_file.rs).
FileIsSafe == OkSaveOutlivesCrash /\ CrashFindsWholeFile /\ TempOfLiveSaveStays /\ ReadsSurviveSaves


\* What the files promise their owners (AtomicFile): the saves in effect are the renames,
\* and those that outlive a crash are the ones up to the newest that returned Ok.
Promise == INSTANCE AtomicFile WITH saved <- named, safe <- returned

\* The steps of temp files, syncs and renames implement that promise.
KeepsPromise == Promise!AtomicSpec
=============================================================================
