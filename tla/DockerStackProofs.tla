------------------------- MODULE DockerStackProofs -------------------------
(***************************************************************************)
(* What holds of the commands of the CLI for any number of services,       *)
(* directories and snapshots.                                              *)
(***************************************************************************)
EXTENDS DockerStack, TLAPS

CleanupSteps == {"removeSecrets", "removeCompose", "removeConf", "finally", "cleaned"}
StoreSteps == {"idle", "copy", "created", "secrets"} \cup CleanupSteps

\* The steps of each command, and what it knows while it runs.
Jobs ==
  /\ job = "none" <=> pc \in StoreSteps
  /\ pc \in {"stop", "directory", "tar", "up"} => job # "restore"
  /\ pc \in {"create", "untar"} => job = "restore"
  /\ pc \in {"down", "remove", "upAgain"} => job # "make"
  /\ backup => job = "rebuild"
  /\ before = "up" => job # "none"
  /\ removing => pc \in CleanupSteps
  /\ job = "restore" => services = Services /\ picked \in 1..Len(snapshots)
  /\ job = "restore" /\ pc \in {"image", "pulled", "untar"} => volumes = Services

\* Nothing runs from the moment a command has stopped the stack.
Resting ==
  pc \in {"directory", "image", "pulled", "tar", "untar", "remove", "create", "upAgain"} => stack # "up"

\* How far a restore has come whose removal was not cut short.
Removed == pc = "remove" => \A s \in Services \ todo : data[s] = {}
Empty == pc = "create" => \A s \in Services : data[s] = {}
Extracting ==
  /\ pc \in {"image", "pulled"} => todo = Services
  /\ pc \in {"image", "pulled", "untar"} => \A s \in todo : data[s] = {}
  /\ pc = "untar" => \A s \in Services \ todo : data[s] = snapshots[picked][s] \/ 0 \in data[s]
Restoring == job = "restore" /\ ~cut => Removed /\ Empty /\ Extracting /\ Restored

\* No data is of the future.
Past ==
  /\ \A s \in Services : data[s] \subseteq 0..now /\ wanted[s] \subseteq 0..now
  /\ \A i \in 1..Len(snapshots) : \A s \in Services : snapshots[i][s] \subseteq 0..now

\* The files have all that was wanted of a service, or later data in its place.
Kept(s, files) == \A m \in wanted[s] : \E n \in files : n >= m
Archived(s) == \E i \in 1..Len(snapshots) : Kept(s, snapshots[i][s])

\* How far a backup has come that has not failed.
Backing ==
  backup /\ ~lapse =>
    /\ pc \in {"stop", "directory", "image", "pulled"} => \A s \in Services : Kept(s, data[s])
    /\ pc \in {"image", "pulled"} => todo = Services
    /\ pc = "tar" => \A s \in Services : IF s \in todo THEN Kept(s, data[s]) ELSE Archived(s)
    /\ pc \in {"up", "down", "remove"} => \A s \in Services : Archived(s)

\* A backup has begun a snapshot.
HasDirectory == pc \in {"image", "pulled", "tar"} => snapshots # <<>>

\* init knows its directory, and conf will say that there is a compose file only
\* when there is one.
Created ==
  /\ pc \in {"copy", "created", "secrets"} => workdir \in Dirs
  /\ pc = "created" => composeIn # {}

StackInv ==
  /\ TypeOK /\ Jobs /\ Resting /\ Restoring /\ NeverMixed
  /\ Past /\ Backing /\ HasDirectory /\ Created /\ Initialized

-----------------------------------------------------------------------------
(* Jobs *)

LEMMA StoreJobs ==
  ASSUME Jobs, StoreBegins \/ StoreCommand, UNCHANGED <<hostVars, jobVars, todo>>
  PROVE  Jobs'
<1> USE DEF Jobs, StoreSteps, CleanupSteps, hostVars, jobVars, Begins, Goes
<1>1. ASSUME NEW d \in Dirs, BeginInit(d) PROVE Jobs'
  BY <1>1 DEF BeginInit
<1>2. ASSUME NEW force \in BOOLEAN, BeginCleanup(force) PROVE Jobs'
  BY <1>2 DEF BeginCleanup
<1>3. CASE CopyCompose BY <1>3 DEF CopyCompose
<1>4. CASE SetCompose BY <1>4 DEF SetCompose
<1>5. CASE CreateSecrets BY <1>5 DEF CreateSecrets
<1>6. CASE RemoveImage BY <1>6 DEF RemoveImage
<1>7. CASE RemoveSecrets BY <1>7 DEF RemoveSecrets
<1>8. CASE RemoveCompose BY <1>8 DEF RemoveCompose
<1>9. CASE RemoveConf BY <1>9 DEF RemoveConf
<1> QED BY <1>1, <1>2, <1>3, <1>4, <1>5, <1>6, <1>7, <1>8, <1>9
      DEF StoreBegins, StoreCommand, InitCommand, CleanupCommand

LEMMA BeginJobs == ASSUME Jobs, StackBegins PROVE Jobs'
<1> USE DEF Jobs, StoreSteps, CleanupSteps, Begin, Begins, Goes, StoreSame
<1>1. CASE BeginMake BY <1>1 DEF BeginMake
<1>2. CASE BeginRestore BY <1>2 DEF BeginRestore
<1>3. ASSUME NEW ss \in SUBSET Services, NEW b \in BOOLEAN, BeginRebuild(ss, b) PROVE Jobs'
  BY <1>3 DEF BeginRebuild
<1> QED BY <1>1, <1>2, <1>3 DEF StackBegins

LEMMA ExitJobs == ASSUME Exits(TRUE) \/ Exits(FALSE), removing' => FALSE PROVE Jobs'
BY DEF Jobs, StoreSteps, CleanupSteps, Exits, Goes

LEMMA CommandJobs ==
  ASSUME TypeOK, Jobs, StackCommand \/ DockerFault
  PROVE  Jobs'
<1> USE DEF Jobs, StoreSteps, CleanupSteps, Goes, StoreSame, hostVars, jobVars
<1>1. CASE Stop BY <1>1 DEF Stop
<1>2. CASE InitSnapshot
  BY <1>2 DEF InitSnapshot
<1>3. CASE UtilityImage BY <1>3 DEF UtilityImage, EnsureImage, SetManaged
<1>4. CASE UpAfterSnapshot
  <2>1. CASE backup BY <1>4, <2>1 DEF UpAfterSnapshot
  <2>2. CASE ~backup BY <1>4, <2>2, ExitJobs DEF UpAfterSnapshot
  <2> QED BY <2>1, <2>2
<1>5. CASE Down BY <1>5 DEF Down
<1>6. CASE RemoveCutShort BY <1>6 DEF RemoveCutShort, AfterRemove
<1>7. CASE CreateVolumes BY <1>7 DEF CreateVolumes
<1>8. CASE UpAtEnd BY <1>8, ExitJobs DEF UpAtEnd
<1>9. CASE SnapshotFails BY <1>9 DEF SnapshotFails
<1>10. CASE Refused BY <1>10, ExitJobs DEF Refused
<1>11. ASSUME NEW s \in Services, NEW files, Tar(s, files) PROVE Jobs'
  BY <1>11 DEF Tar
<1>12. ASSUME NEW s \in Services, RemoveVolume(s) PROVE Jobs'
  BY <1>12 DEF RemoveVolume, AfterRemove
<1>13. ASSUME NEW s \in Services, NEW files, Untar(s, files) PROVE Jobs'
  BY <1>13 DEF Untar
<1> QED
  BY <1>1, <1>2, <1>3, <1>4, <1>5, <1>6, <1>7, <1>8, <1>9, <1>10, <1>11, <1>12, <1>13
  DEF StackCommand, DockerFault, RemoveMissing, TarAll, TarFails, UntarAll, UntarFails

LEMMA NextJobs == ASSUME TypeOK, Jobs, [Next]_vars PROVE Jobs'
<1>1. CASE StoreBegins /\ UNCHANGED <<hostVars, jobVars, todo>> BY <1>1, StoreJobs
<1>2. CASE StoreCommand BY <1>2, StoreJobs DEF StoreCommand
<1>3. CASE StackBegins BY <1>3, BeginJobs
<1>4. CASE StackCommand \/ DockerFault BY <1>4, CommandJobs
<1>5. CASE Killed BY <1>5, ExitJobs DEF Killed
<1>6. CASE Work \/ User \/ UNCHANGED vars
  BY <1>6 DEF Jobs, StoreSteps, Work, User, ComposeUp, vars, storeVars, hostVars, jobVars
<1> QED BY <1>1, <1>2, <1>3, <1>4, <1>5, <1>6 DEF Next

-----------------------------------------------------------------------------
(* Types *)

LEMMA StoreTypes ==
  ASSUME TypeOK, Created, StoreBegins \/ StoreCommand, UNCHANGED <<hostVars, jobVars, todo>>
  PROVE  TypeOK'
<1> USE DEF TypeOK, Contents, hostVars, jobVars, Begins, Goes, conf
<1>1. ASSUME NEW d \in Dirs, BeginInit(d) PROVE TypeOK'
  BY <1>1 DEF BeginInit
<1>2. ASSUME NEW force \in BOOLEAN, BeginCleanup(force) PROVE TypeOK'
  BY <1>2 DEF BeginCleanup
<1>3. CASE CopyCompose BY <1>3 DEF CopyCompose, Created
<1>4. CASE SetCompose BY <1>4 DEF SetCompose
<1>5. CASE CreateSecrets BY <1>5 DEF CreateSecrets, Created
<1>6. CASE RemoveImage BY <1>6 DEF RemoveImage
<1>7. CASE RemoveSecrets BY <1>7 DEF RemoveSecrets
<1>8. CASE RemoveCompose BY <1>8 DEF RemoveCompose
<1>9. CASE RemoveConf
  <2>1. removing' \in BOOLEAN /\ image' \in BOOLEAN BY <1>9 DEF RemoveConf
  <2>2. snapshots' \in Seq([Services -> Contents]) BY <1>9 DEF RemoveConf
  <2> QED BY <1>9, <2>1, <2>2 DEF RemoveConf
<1> QED BY <1>1, <1>2, <1>3, <1>4, <1>5, <1>6, <1>7, <1>8, <1>9
      DEF StoreBegins, StoreCommand, InitCommand, CleanupCommand

LEMMA NothingTyped == Nothing \in [Services -> Contents]
BY DEF Nothing, Contents

LEMMA BeginTypes == ASSUME TypeOK, StackBegins PROVE TypeOK'
<1> USE NothingTyped DEF TypeOK, Begin, Begins, Goes, StoreSame, conf
<1>1. CASE BeginMake BY <1>1 DEF BeginMake
<1>2. CASE BeginRestore
  <2>1. Len(snapshots) \in Nat OBVIOUS
  <2>2. picked' \in Nat BY <1>2, <2>1 DEF BeginRestore
  <2> QED BY <1>2, <2>2 DEF BeginRestore
<1>3. ASSUME NEW ss \in SUBSET Services, NEW b \in BOOLEAN, BeginRebuild(ss, b) PROVE TypeOK'
  <2>1. wanted' \in [Services -> Contents] BY <1>3 DEF BeginRebuild, Contents
  <2> QED BY <1>3, <2>1 DEF BeginRebuild
<1> QED BY <1>1, <1>2, <1>3 DEF StackBegins

\* What a command may do to the stack and the snapshots.
StackTyped ==
  /\ stack \in {"up", "stopped", "down"}
  /\ volumes \subseteq Services
  /\ data \in [Services -> Contents]
  /\ stack = "up" => volumes = Services
  /\ \A s \in Services \ volumes : data[s] = {}

LEMMA ExitTypes ==
  ASSUME TypeOK, Exits(TRUE) \/ Exits(FALSE), StackTyped',
         UNCHANGED <<conf, composeIn, secretsIn, snapshots, image, now, spoilt>>,
         removing' \in BOOLEAN, torn' \in BOOLEAN
  PROVE  TypeOK'
<1>1. /\ pc' = "idle" /\ job' = "none" /\ before' = "down" /\ services' = {} /\ picked' = 0
      /\ todo' = {} /\ wanted' = Nothing
      /\ backup' \in BOOLEAN /\ lapse' \in BOOLEAN /\ cut' \in BOOLEAN /\ broken' \in BOOLEAN
  BY DEF Exits, Goes
<1> QED BY <1>1, NothingTyped DEF TypeOK, conf, StackTyped

LEMMA UpTyped == ASSUME TypeOK, UpAgain, UNCHANGED data PROVE StackTyped'
BY DEF TypeOK, UpAgain, ComposeUp, StackTyped

LEMMA CommandTypes == 
  ASSUME TypeOK, Jobs, Resting, HasDirectory, StackCommand \/ DockerFault
  PROVE  TypeOK'
<1> USE DEF Goes, StoreSame, jobVars, hostVars, conf
<1>1. CASE Stop BY <1>1 DEF TypeOK, Stop
<1>2. CASE InitSnapshot
  <2>1. snapshots' \in Seq([Services -> Contents]) BY <1>2, NothingTyped DEF TypeOK, InitSnapshot
  <2> QED BY <1>2, <2>1 DEF TypeOK, InitSnapshot
<1>3. CASE UtilityImage BY <1>3 DEF TypeOK, UtilityImage, EnsureImage, SetManaged
<1>4. CASE UpAfterSnapshot
  <2>1. StackTyped' BY <1>4, UpTyped DEF UpAfterSnapshot
  <2>2. CASE backup BY <1>4, <2>1, <2>2 DEF TypeOK, StackTyped, UpAfterSnapshot
  <2>3. CASE ~backup BY <1>4, <2>1, <2>3, ExitTypes DEF TypeOK, UpAfterSnapshot
  <2> QED BY <2>2, <2>3
<1>5. CASE Down BY <1>5 DEF TypeOK, Down
<1>6. CASE RemoveCutShort BY <1>6 DEF TypeOK, RemoveCutShort, AfterRemove
<1>7. CASE CreateVolumes BY <1>7 DEF TypeOK, CreateVolumes
<1>8. CASE UpAtEnd
  <2>1. StackTyped' BY <1>8, UpTyped DEF UpAtEnd
  <2> QED BY <1>8, <2>1, ExitTypes DEF TypeOK, UpAtEnd
<1>9. CASE SnapshotFails BY <1>9 DEF TypeOK, SnapshotFails
<1>10. CASE Refused
  <2>1. StackTyped' BY <1>10 DEF TypeOK, StackTyped, Refused
  <2> QED BY <1>10, <2>1, ExitTypes DEF TypeOK, Refused
<1>11. ASSUME NEW s \in Services, NEW files \in Contents, Tar(s, files), lapse' \in BOOLEAN
       PROVE  TypeOK'
  <2> DEFINE i == Len(snapshots)
             row == [snapshots[i] EXCEPT ![s] = files]
  <2>0. i \in 1..Len(snapshots) /\ snapshots[i] \in [Services -> Contents]
    BY <1>11 DEF TypeOK, HasDirectory, Tar
  <2>1. snapshots' \in Seq([Services -> Contents])
    <3>1. row \in [Services -> Contents] BY <2>0
    <3>2. snapshots' = [snapshots EXCEPT ![i] = row] BY <1>11, <2>0 DEF Tar
    <3> HIDE DEF row
    <3> QED BY <3>1, <3>2, <2>0 DEF TypeOK
  <2>2. pc' \in {"up", "tar"} BY <1>11 DEF Tar
  <2>3. volumes' \subseteq Services /\ todo' \subseteq Services BY <1>11 DEF TypeOK, Tar
  <2>4. stack = "up" => volumes' = Services BY <1>11 DEF TypeOK, Tar
  <2> QED BY <1>11, <2>1, <2>2, <2>3, <2>4 DEF TypeOK, Tar
<1>12. ASSUME NEW s \in Services, RemoveVolume(s), stack # "up" PROVE TypeOK'
  <2>1. data' \in [Services -> Contents] BY <1>12 DEF TypeOK, RemoveVolume, Contents
  <2> QED BY <1>12, <2>1 DEF TypeOK, RemoveVolume, AfterRemove
<1>13. ASSUME NEW s \in Services, NEW files \in Contents, Untar(s, files) PROVE TypeOK'
  <2>1. data' \in [Services -> Contents] BY <1>13 DEF TypeOK, Untar, Contents
  <2>2. spoilt' \in BOOLEAN BY <1>13 DEF TypeOK, Untar
  <2>3. pc' \in {"untar", "upAgain"} /\ todo' \subseteq Services BY <1>13 DEF TypeOK, Untar
  <2>4. ~ \E r \in Services : r \notin volumes /\ data'[r] # {}
    BY <1>13 DEF TypeOK, Jobs, Untar
  <2> QED BY <1>13, <2>1, <2>2, <2>3, <2>4 DEF TypeOK, Untar
<1>14. ASSUME NEW s \in Services, TarAll(s) \/ TarFails(s) PROVE TypeOK'
  <2>1. data[s] \in Contents /\ {0} \in Contents BY BoundsAssumption DEF TypeOK, Contents
  <2>2. lapse' \in BOOLEAN BY <1>14 DEF TypeOK, TarAll, TarFails
  <2> QED BY <1>14, <2>1, <2>2, <1>11 DEF TarAll, TarFails
<1>15. ASSUME NEW s \in Services, UntarAll(s) \/ UntarFails(s) PROVE TypeOK'
  <2>1. {0} \in Contents BY BoundsAssumption DEF Contents
  <2>2. job = "restore" BY <1>15 DEF Jobs, UntarAll, UntarFails, Untar
  <2>3. snapshots[picked][s] \in Contents BY <2>2 DEF TypeOK, Jobs
  <2> QED BY <1>15, <2>1, <2>3, <1>13 DEF UntarAll, UntarFails
<1>16. ASSUME NEW s \in Services, RemoveVolume(s) PROVE TypeOK'
  BY <1>16, <1>12 DEF RemoveVolume, Resting
<1> QED
  BY <1>1, <1>2, <1>3, <1>4, <1>5, <1>6, <1>7, <1>8, <1>9, <1>10, <1>14, <1>15, <1>16
  DEF StackCommand, DockerFault, RemoveMissing

LEMMA NextTypes ==
  ASSUME TypeOK, Jobs, Resting, HasDirectory, Created, [Next]_vars
  PROVE  TypeOK'
<1>1. CASE StoreBegins /\ UNCHANGED <<hostVars, jobVars, todo>> BY <1>1, StoreTypes
<1>2. CASE StoreCommand BY <1>2, StoreTypes DEF StoreCommand
<1>3. CASE StackBegins BY <1>3, BeginTypes
<1>4. CASE StackCommand \/ DockerFault BY <1>4, CommandTypes
<1>5. CASE Killed
  <2>1. StackTyped' BY <1>5 DEF TypeOK, StackTyped, Killed
  <2>2. torn' \in BOOLEAN /\ removing' \in BOOLEAN BY <1>5 DEF TypeOK, Killed
  <2> QED BY <1>5, <2>1, <2>2, ExitTypes DEF Killed, conf
<1>6. CASE Work
  <2>1. now' \in 0..MaxNow BY <1>6, BoundsAssumption DEF TypeOK, Work
  <2>2. data' \in [Services -> Contents]
    BY <1>6, <2>1, BoundsAssumption DEF TypeOK, Work, Contents
  <2> QED BY <1>6, <2>1, <2>2 DEF TypeOK, Work, storeVars, conf, jobVars
<1>7. CASE User
  BY <1>7 DEF TypeOK, User, ComposeUp, storeVars, conf, jobVars
<1>8. CASE UNCHANGED vars
  BY <1>8 DEF TypeOK, vars, storeVars, conf, hostVars, jobVars
<1> QED BY <1>1, <1>2, <1>3, <1>4, <1>5, <1>6, <1>7, <1>8 DEF Next

-----------------------------------------------------------------------------
(* What a command relies on *)

LEMMA NextRests == ASSUME TypeOK, Jobs, Resting, [Next]_vars PROVE Resting'
<1> USE DEF Resting, Goes, StoreSame, hostVars, jobVars
<1>1. CASE StoreBegins /\ UNCHANGED <<hostVars, jobVars, todo>>
  BY <1>1 DEF StoreBegins, BeginInit, BeginCleanup, Begins
<1>2. CASE StoreCommand
  BY <1>2 DEF StoreCommand, InitCommand, CopyCompose, SetCompose, CreateSecrets,
              CleanupCommand, RemoveImage, RemoveSecrets, RemoveCompose, RemoveConf
<1>3. CASE StackBegins
  BY <1>3 DEF StackBegins, BeginMake, BeginRestore, BeginRebuild, Begin, Begins
<1>4. CASE UtilityImage \/ CreateVolumes \/ InitSnapshot
  BY <1>4 DEF UtilityImage, EnsureImage, SetManaged, CreateVolumes, InitSnapshot
<1>5. CASE Stop BY <1>5 DEF TypeOK, Stop
<1>6. CASE Down \/ RemoveCutShort
  BY <1>6 DEF Down, RemoveCutShort, AfterRemove
<1>7. CASE UpAfterSnapshot \/ UpAtEnd \/ Refused \/ SnapshotFails \/ Killed
  BY <1>7 DEF UpAfterSnapshot, UpAtEnd, Refused, SnapshotFails, Killed, Exits
<1>8. ASSUME NEW s \in Services, NEW files, Tar(s, files) \/ Untar(s, files) \/ RemoveVolume(s)
      PROVE  Resting'
  BY <1>8 DEF Tar, Untar, RemoveVolume, AfterRemove
<1>9. CASE Work \/ User \/ UNCHANGED vars BY <1>9 DEF Work, User, vars, storeVars
<1> QED
  BY <1>1, <1>2, <1>3, <1>4, <1>5, <1>6, <1>7, <1>8, <1>9
  DEF Next, StackCommand, DockerFault, RemoveMissing, TarAll, TarFails, UntarAll, UntarFails

LEMMA NextHasDirectory ==
  ASSUME TypeOK, Jobs, HasDirectory, [Next]_vars
  PROVE  HasDirectory'
<1> USE DEF HasDirectory, Goes, StoreSame
<1>1. CASE StoreBegins /\ UNCHANGED <<hostVars, jobVars, todo>>
  BY <1>1 DEF StoreBegins, BeginInit, BeginCleanup, Begins
<1>2. CASE StoreCommand
  BY <1>2 DEF StoreCommand, InitCommand, CopyCompose, SetCompose, CreateSecrets,
              CleanupCommand, RemoveImage, RemoveSecrets, RemoveCompose, RemoveConf
<1>3. CASE StackBegins
  BY <1>3 DEF StackBegins, BeginMake, BeginRestore, BeginRebuild, Begin, Begins
<1>4. CASE UtilityImage BY <1>4 DEF UtilityImage, EnsureImage, SetManaged
<1>5. CASE InitSnapshot
  <2>1. snapshots' # <<>> BY <1>5 DEF TypeOK, InitSnapshot
  <2> QED BY <2>1
<1>6. CASE CreateVolumes
  <2>1. Len(snapshots) # 0 BY <1>6 DEF TypeOK, Jobs, CreateVolumes
  <2> QED BY <1>6, <2>1 DEF CreateVolumes
<1>7. CASE Stop \/ Down \/ RemoveCutShort \/ SnapshotFails \/ Refused \/ Killed
  BY <1>7 DEF Stop, Down, RemoveCutShort, AfterRemove, SnapshotFails, Refused, Killed, Exits
<1>8. CASE UpAfterSnapshot \/ UpAtEnd BY <1>8 DEF UpAfterSnapshot, UpAtEnd, Exits
<1>9. ASSUME NEW s \in Services, NEW files, Tar(s, files) PROVE HasDirectory'
  <2>1. snapshots # <<>> BY <1>9 DEF Tar
  <2>2. DOMAIN snapshots' = DOMAIN snapshots BY <1>9 DEF Tar
  <2>3. snapshots' # <<>> BY <2>1, <2>2 DEF TypeOK
  <2> QED BY <2>3
<1>10. ASSUME NEW s \in Services, NEW files, Untar(s, files) \/ RemoveVolume(s)
       PROVE  HasDirectory'
  BY <1>10 DEF Untar, RemoveVolume, AfterRemove
<1>11. CASE Work \/ User \/ UNCHANGED vars BY <1>11 DEF Work, User, vars, storeVars
<1> QED
  BY <1>1, <1>2, <1>3, <1>4, <1>5, <1>6, <1>7, <1>8, <1>9, <1>10, <1>11
  DEF Next, StackCommand, DockerFault, RemoveMissing, TarAll, TarFails, UntarAll, UntarFails

-----------------------------------------------------------------------------
(* init and cleanup *)

LEMMA NextCreated ==
  ASSUME TypeOK, Jobs, Created, Initialized, [Next]_vars
  PROVE  Created' /\ Initialized'
<1> USE DEF Created, Initialized, Goes, StoreSame, conf
<1>1. ASSUME NEW d \in Dirs, BeginInit(d) PROVE Created' /\ Initialized'
  BY <1>1 DEF BeginInit, Begins
<1>2. ASSUME NEW force \in BOOLEAN, BeginCleanup(force) PROVE Created' /\ Initialized'
  BY <1>2 DEF BeginCleanup, Begins
<1>3. CASE CopyCompose BY <1>3 DEF CopyCompose
<1>4. CASE SetCompose \/ CreateSecrets BY <1>4 DEF SetCompose, CreateSecrets
<1>5. CASE RemoveImage BY <1>5 DEF RemoveImage, Jobs, CleanupSteps
<1>6. CASE RemoveSecrets BY <1>6 DEF RemoveSecrets
<1>7. CASE RemoveCompose BY <1>7 DEF RemoveCompose
<1>8. CASE RemoveConf BY <1>8 DEF RemoveConf
<1>9. CASE StackBegins
  BY <1>9 DEF StackBegins, BeginMake, BeginRestore, BeginRebuild, Begin, Begins
<1>10. CASE UtilityImage BY <1>10 DEF UtilityImage, EnsureImage, SetManaged
<1>11. CASE InitSnapshot \/ CreateVolumes BY <1>11 DEF InitSnapshot, CreateVolumes
<1>12. CASE Stop \/ Down \/ RemoveCutShort \/ SnapshotFails
  BY <1>12 DEF Stop, Down, RemoveCutShort, AfterRemove, SnapshotFails
<1>13. CASE UpAfterSnapshot \/ UpAtEnd \/ Refused
  BY <1>13 DEF UpAfterSnapshot, UpAtEnd, Refused, Exits
<1>14. CASE Killed BY <1>14 DEF Killed, Exits
<1>15. ASSUME NEW s \in Services, NEW files, Tar(s, files) \/ Untar(s, files) \/ RemoveVolume(s)
       PROVE  Created' /\ Initialized'
  BY <1>15 DEF Tar, Untar, RemoveVolume, AfterRemove
<1>16. CASE Work \/ User \/ UNCHANGED vars BY <1>16 DEF Work, User, vars, storeVars
<1> QED
  BY <1>1, <1>2, <1>3, <1>4, <1>5, <1>6, <1>7, <1>8, <1>9, <1>10, <1>11, <1>12, <1>13,
     <1>14, <1>15, <1>16
  DEF Next, StoreBegins, StoreCommand, InitCommand, CleanupCommand, StackCommand, DockerFault,
      RemoveMissing, TarAll, TarFails, UntarAll, UntarFails

-----------------------------------------------------------------------------
(* The data *)

LEMMA TarWrites ==
  ASSUME TypeOK, HasDirectory, NEW s \in Services, NEW files, Tar(s, files)
  PROVE  /\ Len(snapshots) \in 1..Len(snapshots) /\ Len(snapshots') = Len(snapshots)
         /\ \A i \in 1..Len(snapshots), r \in Services :
              snapshots'[i][r] = IF i = Len(snapshots) /\ r = s THEN files ELSE snapshots[i][r]
<1>1. Len(snapshots) \in 1..Len(snapshots) BY DEF TypeOK, HasDirectory, Tar
<1>2. \A i \in 1..Len(snapshots) : snapshots[i] \in [Services -> Contents] BY DEF TypeOK
<1> QED BY <1>1, <1>2 DEF Tar, TypeOK

LEMMA InitWrites ==
  ASSUME TypeOK, InitSnapshot
  PROVE  /\ Len(snapshots) \in Nat /\ Len(snapshots') = Len(snapshots) + 1
         /\ \A i \in 1..Len(snapshots) : snapshots'[i] = snapshots[i]
         /\ \A s \in Services : snapshots'[Len(snapshots) + 1][s] = {}
BY DEF TypeOK, InitSnapshot, Nothing

\* The commands that touch no data.
DataSame == UNCHANGED <<data, now, snapshots, spoilt>>

LEMMA NextKeepsData ==
  ASSUME [Next]_vars
  PROVE  \/ DataSame /\ UNCHANGED wanted
         \/ DataSame /\ \/ wanted' = Nothing
                        \/ \E b \in BOOLEAN, ss \in SUBSET Services :
                             wanted' = [s \in Services |-> IF b /\ s \in ss THEN data[s] ELSE {}]
         \/ RemoveConf /\ UNCHANGED <<data, now, wanted, spoilt>>
         \/ InitSnapshot \/ Work
         \/ \E s \in Services : TarAll(s) \/ TarFails(s) \/ RemoveVolume(s)
                                  \/ UntarAll(s) \/ UntarFails(s)
<1> USE DEF DataSame, hostVars, jobVars
<1>1. CASE StoreBegins /\ UNCHANGED <<hostVars, jobVars, todo>>
  BY <1>1 DEF StoreBegins, BeginInit, BeginCleanup
<1>2. CASE StoreCommand
  BY <1>2 DEF StoreCommand, InitCommand, CopyCompose, SetCompose, CreateSecrets,
              CleanupCommand, RemoveImage, RemoveSecrets, RemoveCompose
<1>3. CASE BeginMake \/ BeginRestore BY <1>3 DEF BeginMake, BeginRestore, Begin
<1>4. ASSUME NEW ss \in SUBSET Services, NEW b \in BOOLEAN, BeginRebuild(ss, b)
      PROVE  /\ DataSame
             /\ wanted' = [s \in Services |-> IF b /\ s \in ss THEN data[s] ELSE {}]
  BY <1>4 DEF BeginRebuild, Begin
<1>5. CASE UtilityImage BY <1>5 DEF UtilityImage, EnsureImage, SetManaged
<1>6. CASE Stop \/ Down \/ CreateVolumes BY <1>6 DEF Stop, Down, CreateVolumes
<1>7. CASE UpAfterSnapshot \/ UpAtEnd \/ Refused \/ SnapshotFails \/ RemoveCutShort \/ Killed
  BY <1>7 DEF UpAfterSnapshot, UpAtEnd, Refused, SnapshotFails, RemoveCutShort, Killed, Exits
<1>8. CASE User \/ UNCHANGED vars BY <1>8 DEF User, vars, storeVars
<1> QED
  BY <1>1, <1>2, <1>3, <1>4, <1>5, <1>6, <1>7, <1>8
  DEF Next, StackBegins, StackCommand, DockerFault, RemoveMissing

LEMMA NextPast ==
  ASSUME TypeOK, Jobs, HasDirectory, Past, [Next]_vars
  PROVE  Past'
<1>1. CASE DataSame /\ UNCHANGED wanted BY <1>1 DEF Past, DataSame
<1>2. CASE DataSame /\ wanted' = Nothing BY <1>2 DEF Past, DataSame, Nothing
<1>3. ASSUME DataSame, NEW b \in BOOLEAN, NEW ss \in SUBSET Services,
             wanted' = [s \in Services |-> IF b /\ s \in ss THEN data[s] ELSE {}]
      PROVE  Past'
  BY <1>3 DEF Past, DataSame
<1>4. CASE RemoveConf /\ UNCHANGED <<data, now, wanted, spoilt>> BY <1>4 DEF Past, RemoveConf
<1>5. CASE InitSnapshot
  <2>1. UNCHANGED <<data, now, wanted>> BY <1>5 DEF InitSnapshot, hostVars, jobVars
  <2>2. ASSUME NEW i \in 1..Len(snapshots'), NEW s \in Services
        PROVE  snapshots'[i][s] \subseteq 0..now
    <3>1. i \in 1..Len(snapshots) \/ i = Len(snapshots) + 1 BY <1>5, InitWrites
    <3> QED BY <1>5, <3>1, InitWrites DEF Past
  <2> QED BY <2>1, <2>2 DEF Past
<1>6. CASE Work
  <2>1. 0..now \subseteq 0..now' /\ now' \in 0..now' BY <1>6 DEF TypeOK, Work
  <2>2. UNCHANGED <<snapshots, wanted>> BY <1>6 DEF Work, storeVars, jobVars
  <2>3. ASSUME NEW s \in Services PROVE data'[s] \subseteq 0..now'
    <3>1. data'[s] \subseteq {now'} \cup data[s] BY <1>6 DEF Work
    <3> QED BY <2>1, <3>1 DEF Past
  <2> QED BY <2>1, <2>2, <2>3 DEF Past
<1>7. ASSUME NEW s \in Services, TarAll(s) \/ TarFails(s) PROVE Past'
  <2>1. PICK files : Tar(s, files) /\ files \in {data[s], {0}} BY <1>7 DEF TarAll, TarFails
  <2>2. UNCHANGED <<data, now, wanted>> BY <2>1 DEF Tar
  <2>3. files \subseteq 0..now BY <2>1 DEF Past, TypeOK
  <2>4. ASSUME NEW i \in 1..Len(snapshots'), NEW r \in Services
        PROVE  snapshots'[i][r] \subseteq 0..now
    BY <2>1, <2>3, TarWrites DEF Past
  <2> QED BY <2>2, <2>4 DEF Past
<1>8. ASSUME NEW s \in Services, RemoveVolume(s) PROVE Past'
  <2>1. UNCHANGED <<snapshots, now, wanted>> BY <1>8 DEF RemoveVolume, jobVars
  <2>2. \A r \in Services : data'[r] \subseteq data[r] BY <1>8 DEF RemoveVolume, TypeOK
  <2> QED BY <2>1, <2>2 DEF Past
<1>9. ASSUME NEW s \in Services, UntarAll(s) \/ UntarFails(s) PROVE Past'
  <2>1. PICK files : Untar(s, files) /\ files \in {snapshots[picked][s], {0}}
    BY <1>9 DEF UntarAll, UntarFails
  <2>2. UNCHANGED <<snapshots, now, wanted>> BY <2>1 DEF Untar, jobVars
  <2>3. picked \in 1..Len(snapshots) BY <2>1 DEF Untar, Jobs
  <2>4. files \subseteq 0..now BY <2>1, <2>3 DEF Past, TypeOK
  <2>5. \A r \in Services : data'[r] \subseteq data[r] \cup files BY <2>1 DEF Untar, TypeOK
  <2> QED BY <2>2, <2>4, <2>5 DEF Past
<1> QED BY <1>1, <1>2, <1>3, <1>4, <1>5, <1>6, <1>7, <1>8, <1>9, NextKeepsData

-----------------------------------------------------------------------------
(* Restoring *)

LEMMA NextRestoring ==
  ASSUME TypeOK, Jobs, Resting, Restoring, [Next]_vars
  PROVE  Restoring'
<1> USE DEF Restoring, Removed, Empty, Extracting, Restored, Goes, StoreSame, hostVars, jobVars
<1> SUFFICES ASSUME job' = "restore", ~cut' PROVE Restoring' OBVIOUS
<1>1. CASE StoreBegins /\ UNCHANGED <<hostVars, jobVars, todo>>
  BY <1>1 DEF StoreBegins, BeginInit, BeginCleanup, Begins, Jobs, StoreSteps
<1>2. CASE StoreCommand
  BY <1>2 DEF StoreCommand, InitCommand, CopyCompose, SetCompose, CreateSecrets,
              CleanupCommand, RemoveImage, RemoveSecrets, RemoveCompose, RemoveConf,
              Jobs, StoreSteps, CleanupSteps
<1>3. CASE StackBegins
  BY <1>3 DEF StackBegins, BeginMake, BeginRestore, BeginRebuild, Begin, Begins
<1>4. CASE UtilityImage
  BY <1>4 DEF UtilityImage, EnsureImage, SetManaged
<1>5. CASE Stop \/ InitSnapshot \/ SnapshotFails \/ RemoveCutShort
  BY <1>5 DEF Jobs, Stop, InitSnapshot, SnapshotFails, RemoveCutShort
<1>6. CASE UpAfterSnapshot \/ UpAtEnd \/ Refused \/ Killed
  BY <1>6 DEF Jobs, UpAfterSnapshot, UpAtEnd, Refused, Killed, Exits
<1>7. CASE Down BY <1>7 DEF Jobs, Down
<1>8. CASE CreateVolumes BY <1>8 DEF CreateVolumes
<1>9. ASSUME NEW s \in Services, NEW files, Tar(s, files) PROVE Restoring'
  BY <1>9 DEF Jobs, Tar
<1>10. ASSUME NEW s \in Services, RemoveVolume(s) PROVE Restoring'
  <2>1. \A r \in Services \ todo' : data'[r] = {} BY <1>10 DEF TypeOK, RemoveVolume
  <2> QED BY <1>10, <2>1 DEF RemoveVolume, AfterRemove
<1>11. ASSUME NEW s \in Services, NEW files, Untar(s, files),
              files \in {snapshots[picked][s], {0}}
       PROVE  Restoring'
  <2>1. data'[s] = files BY <1>11 DEF TypeOK, Untar
  <2>2. \A r \in Services \ {s} : data'[r] = data[r] BY <1>11 DEF TypeOK, Untar
  <2>3. /\ pc = "untar" /\ pc' \in {"untar", "upAgain"}
        /\ pc' = "upAgain" => todo' = {}
        /\ todo' = todo \ {s} /\ UNCHANGED <<snapshots, picked, job, cut>>
    BY <1>11 DEF Untar
  <2>4. /\ \A r \in todo : data[r] = {}
        /\ \A r \in Services \ todo : data[r] = snapshots[picked][r] \/ 0 \in data[r]
    BY <2>3
  <2>5. \A r \in todo' : data'[r] = {} BY <2>2, <2>3, <2>4 DEF TypeOK
  <2>6. \A r \in Services \ todo' : data'[r] = snapshots'[picked'][r] \/ 0 \in data'[r]
    <3> SUFFICES ASSUME NEW r \in Services \ todo'
                 PROVE  data'[r] = snapshots'[picked'][r] \/ 0 \in data'[r]
      OBVIOUS
    <3>1. CASE r = s BY <1>11, <2>1, <2>3, <3>1
    <3>2. CASE r # s BY <2>2, <2>3, <2>4, <3>2
    <3> QED BY <3>1, <3>2
  <2> QED BY <2>3, <2>5, <2>6
<1>12. CASE Work BY <1>12 DEF Resting, Work, storeVars
<1>13. CASE User BY <1>13 DEF User, storeVars
<1>14. CASE UNCHANGED vars BY <1>14 DEF vars, storeVars
<1> QED
  BY <1>1, <1>2, <1>3, <1>4, <1>5, <1>6, <1>7, <1>8, <1>9, <1>10, <1>11, <1>12, <1>13, <1>14
  DEF Next, StackCommand, DockerFault, RemoveMissing, TarAll, TarFails, UntarAll, UntarFails

LEMMA NextNeverMixed ==
  ASSUME TypeOK, Jobs, HasDirectory, Restoring, NeverMixed, [Next]_vars
  PROVE  NeverMixed'
<1>0. Whole({}) /\ Whole({0}) BY DEF Whole
<1>1. CASE DataSame BY <1>1 DEF NeverMixed, DataSame
<1>2. CASE RemoveConf /\ UNCHANGED <<data, now, wanted, spoilt>>
  BY <1>2 DEF NeverMixed, RemoveConf
<1>3. CASE InitSnapshot
  <2>1. UNCHANGED <<data, spoilt>> BY <1>3 DEF InitSnapshot, hostVars
  <2>2. ASSUME ~spoilt, NEW i \in 1..Len(snapshots'), NEW s \in Services
        PROVE  Whole(snapshots'[i][s])
    <3>1. i \in 1..Len(snapshots) \/ i = Len(snapshots) + 1 BY <1>3, InitWrites
    <3> QED BY <1>0, <1>3, <2>2, <3>1, InitWrites DEF NeverMixed
  <2> QED BY <2>1, <2>2 DEF NeverMixed
<1>4. CASE Work
  <2>1. UNCHANGED <<snapshots, spoilt>> BY <1>4 DEF Work, storeVars
  <2>2. ASSUME NEW s \in Services, Whole(data[s]) PROVE Whole(data'[s])
    <3>1. data'[s] = {now'} \cup (data[s] \cap {0}) BY <1>4, <2>2 DEF Work
    <3> QED BY <3>1 DEF Whole
  <2> QED BY <2>1, <2>2 DEF NeverMixed
<1>5. ASSUME NEW s \in Services, TarAll(s) \/ TarFails(s) PROVE NeverMixed'
  <2>1. PICK files : Tar(s, files) /\ files \in {data[s], {0}} BY <1>5 DEF TarAll, TarFails
  <2>2. UNCHANGED <<data, spoilt>> BY <2>1 DEF Tar
  <2>3. ~spoilt => Whole(files) BY <1>0, <2>1 DEF NeverMixed
  <2>4. ASSUME ~spoilt, NEW i \in 1..Len(snapshots'), NEW r \in Services
        PROVE  Whole(snapshots'[i][r])
    BY <2>1, <2>3, <2>4, TarWrites DEF NeverMixed
  <2> QED BY <2>2, <2>4 DEF NeverMixed
<1>6. ASSUME NEW s \in Services, RemoveVolume(s) PROVE NeverMixed'
  <2>1. UNCHANGED <<snapshots, spoilt>> BY <1>6 DEF RemoveVolume
  <2>2. \A r \in Services : data'[r] \in {data[r], {}} BY <1>6 DEF RemoveVolume, TypeOK
  <2> QED BY <1>0, <2>1, <2>2 DEF NeverMixed
<1>7. ASSUME NEW s \in Services, UntarAll(s) \/ UntarFails(s) PROVE NeverMixed'
  <2> SUFFICES ASSUME ~spoilt' PROVE NeverMixed' BY DEF NeverMixed
  <2>1. PICK files : Untar(s, files) /\ files \in {snapshots[picked][s], {0}}
    BY <1>7 DEF UntarAll, UntarFails
  <2>2. UNCHANGED snapshots /\ ~spoilt /\ ~cut /\ s \in todo /\ pc = "untar"
    BY <2>1 DEF Untar
  <2>3. job = "restore" /\ picked \in 1..Len(snapshots) BY <2>2 DEF Jobs
  <2>4. data[s] = {} BY <2>2, <2>3 DEF Restoring, Extracting
  <2>5. Whole(files) BY <1>0, <2>1, <2>2, <2>3 DEF NeverMixed
  <2>6. \A r \in Services : data'[r] = IF r = s THEN files ELSE data[r]
    BY <2>1, <2>4 DEF Untar, TypeOK
  <2> QED BY <2>2, <2>5, <2>6 DEF NeverMixed
<1> QED BY <1>1, <1>2, <1>3, <1>4, <1>5, <1>6, <1>7, NextKeepsData

-----------------------------------------------------------------------------
(* Backing up *)

LEMMA WriteKeeps ==
  ASSUME TypeOK, Past, Work, NEW s \in Services
  PROVE  Kept(s, data[s])'
<1>1. now' \in data'[s] /\ UNCHANGED wanted BY DEF Work, jobVars
<1>2. \A m \in wanted[s] : now' >= m BY DEF Past, TypeOK, Work
<1> QED BY <1>1, <1>2 DEF Kept

LEMMA NextBacking ==
  ASSUME TypeOK, Jobs, Resting, Past, HasDirectory, Backing, [Next]_vars
  PROVE  Backing'
<1> USE DEF Backing, Goes, StoreSame, hostVars, jobVars
<1> SUFFICES ASSUME backup', ~lapse' PROVE Backing' OBVIOUS
<1>1. CASE StoreBegins /\ UNCHANGED <<hostVars, jobVars, todo>>
  BY <1>1 DEF StoreBegins, BeginInit, BeginCleanup, Begins, Jobs, StoreSteps
<1>2. CASE StoreCommand
  BY <1>2 DEF StoreCommand, InitCommand, CopyCompose, SetCompose, CreateSecrets,
              CleanupCommand, RemoveImage, RemoveSecrets, RemoveCompose, RemoveConf,
              Jobs, StoreSteps, CleanupSteps
<1>3. CASE BeginMake \/ BeginRestore
  BY <1>3 DEF BeginMake, BeginRestore, Begin, Begins, Jobs, StoreSteps
<1>4. ASSUME NEW ss \in SUBSET Services, NEW b \in BOOLEAN, BeginRebuild(ss, b)
      PROVE  Backing'
  <2>1. pc' = "stop" /\ UNCHANGED data BY <1>4 DEF BeginRebuild, Begin, Begins
  <2>2. ASSUME NEW s \in Services PROVE Kept(s, data[s])'
    <3>1. wanted'[s] \subseteq data[s] BY <1>4 DEF BeginRebuild
    <3>2. \A m \in data[s] : m >= m BY DEF Past, TypeOK
    <3> QED BY <2>1, <3>1, <3>2 DEF Kept
  <2> QED BY <2>1, <2>2
<1>5. CASE Stop BY <1>5 DEF Stop, Kept
<1>6. CASE InitSnapshot BY <1>6 DEF InitSnapshot, Kept
<1>7. CASE UtilityImage
  BY <1>7 DEF UtilityImage, EnsureImage, SetManaged, Jobs, Kept
<1>8. CASE UpAfterSnapshot BY <1>8 DEF UpAfterSnapshot, Exits, Kept, Archived
<1>9. CASE Down BY <1>9 DEF Down, Kept, Archived
<1>10. CASE SnapshotFails BY <1>10 DEF SnapshotFails
<1>11. CASE UpAtEnd \/ Refused \/ Killed BY <1>11 DEF UpAtEnd, Refused, Killed, Exits
<1>12. CASE RemoveCutShort BY <1>12 DEF RemoveCutShort, AfterRemove
<1>13. CASE CreateVolumes BY <1>13 DEF CreateVolumes, Jobs
<1>14. ASSUME NEW s \in Services, TarAll(s) PROVE Backing'
  <2>1. Tar(s, data[s]) BY <1>14 DEF TarAll
  <2>2. /\ pc = "tar" /\ pc' \in {"tar", "up"} /\ (pc' = "up" => todo' = {})
        /\ s \in todo /\ todo' = todo \ {s} /\ UNCHANGED <<data, wanted, backup>>
    BY <2>1 DEF Tar
  <2>3. ~lapse BY <1>14 DEF TarAll
  <2>4. \A r \in Services : IF r \in todo THEN Kept(r, data[r]) ELSE Archived(r)
    BY <2>2, <2>3
  <2>5. Archived(s)'
    <3>1. snapshots'[Len(snapshots)][s] = data[s] BY <2>1, TarWrites
    <3>2. Len(snapshots) \in 1..Len(snapshots') BY <2>1, TarWrites
    <3> QED BY <2>2, <2>4, <3>1, <3>2 DEF Archived, Kept
  <2>6. ASSUME NEW r \in Services \ todo PROVE Archived(r)'
    <3>1. PICK i \in 1..Len(snapshots) : Kept(r, snapshots[i][r]) BY <2>4 DEF Archived
    <3>2. i \in 1..Len(snapshots') /\ snapshots'[i][r] = snapshots[i][r]
      BY <2>1, <2>2, TarWrites
    <3> QED BY <2>2, <3>1, <3>2 DEF Archived, Kept
  <2>7. \A r \in todo' : Kept(r, data[r])' BY <2>2, <2>4 DEF Kept, TypeOK
  <2> QED BY <2>2, <2>5, <2>6, <2>7
<1>15. ASSUME NEW s \in Services, TarFails(s) PROVE Backing' BY <1>15 DEF TarFails
<1>16. ASSUME NEW s \in Services, RemoveVolume(s) PROVE Backing'
  BY <1>16 DEF RemoveVolume, AfterRemove, Kept, Archived
<1>17. ASSUME NEW s \in Services, NEW files, Untar(s, files) PROVE Backing'
  BY <1>17 DEF Untar, Jobs
<1>18. CASE Work
  <2>1. UNCHANGED <<pc, snapshots, jobVars, todo>> BY <1>18 DEF Work, storeVars
  <2>2. \A s \in Services : Kept(s, data[s])' BY <1>18, WriteKeeps
  <2>3. \A s \in Services : Archived(s) => Archived(s)' BY <2>1 DEF Archived, Kept
  <2> QED BY <2>1, <2>2, <2>3
<1>19. CASE User BY <1>19 DEF User, storeVars, Jobs, StoreSteps
<1>20. CASE UNCHANGED vars BY <1>20 DEF vars, storeVars, Kept, Archived
<1> QED
  BY <1>1, <1>2, <1>3, <1>4, <1>5, <1>6, <1>7, <1>8, <1>9, <1>10, <1>11, <1>12, <1>13,
     <1>14, <1>15, <1>16, <1>17, <1>18, <1>19, <1>20
  DEF Next, StackBegins, StackCommand, DockerFault, RemoveMissing, UntarAll, UntarFails

-----------------------------------------------------------------------------
(* The theorems *)

LEMMA InitEstablishes == Init => StackInv
<1> SUFFICES ASSUME Init PROVE StackInv OBVIOUS
<1> USE DEF Init, StoreInit
<1>1. TypeOK
  <2>1. {image, removing, torn, compose, managed, backup, lapse, cut, spoilt, broken} \subseteq BOOLEAN
    OBVIOUS
  <2>2. /\ data \in [Services -> Contents] /\ wanted \in [Services -> Contents]
        /\ \A s \in Services : data[s] = {}
    BY NothingTyped DEF Nothing
  <2>3. now \in 0..MaxNow /\ snapshots \in Seq([Services -> Contents]) BY BoundsAssumption
  <2> QED BY <2>1, <2>2, <2>3 DEF TypeOK, conf
<1>2. Jobs /\ Resting /\ HasDirectory /\ Created /\ Initialized
  BY DEF Jobs, StoreSteps, Resting, HasDirectory, Created, Initialized
<1>3. Restoring /\ Backing
  BY DEF Restoring, Backing
<1>4. NeverMixed /\ Past BY DEF NeverMixed, Past, Whole, Nothing
<1> QED BY <1>1, <1>2, <1>3, <1>4 DEF StackInv

\* The inductive invariant holds in every reachable state.
THEOREM StackInvariant == Spec => []StackInv
<1>1. StackInv /\ [Next]_vars => StackInv'
  BY NextTypes, NextJobs, NextRests, NextRestoring, NextNeverMixed, NextPast, NextBacking,
     NextHasDirectory, NextCreated
  DEF StackInv
<1> QED BY <1>1, InitEstablishes, PTL DEF Spec

\* The CLI's state keeps its types, for any number of services and directories.
THEOREM StackTypes == Spec => []TypeOK
BY StackInvariant, PTL DEF StackInv

\* Volumes are archived and extracted at rest: Stop and Down precede the loops, and
\* nothing but the command's own end starts the stack again.
THEOREM StackAtRest == Spec => []AtRest
<1>1. Resting => AtRest BY DEF Resting, AtRest
<1> QED BY <1>1, StackInvariant, PTL DEF StackInv

\* A restore leaves what was archived: the loop of removals empties each volume first.
THEOREM StackRestores == Spec => []Restored
<1>1. Restoring => Restored BY DEF Restoring, Restored
<1> QED BY <1>1, StackInvariant, PTL DEF StackInv

\* No volume, and no archive, mixes the files of two moments before a removal is cut short.
THEOREM StackNeverMixes == Spec => []NeverMixed
BY StackInvariant, PTL DEF StackInv

\* A rebuild with backup removes no data that no snapshot has, unless the backup failed.
THEOREM StackBacksUp == Spec => []BackedUp
<1>1. TypeOK /\ Backing => BackedUp
  BY DEF TypeOK, Backing, BackedUp, Archived, Kept
<1> QED BY <1>1, StackInvariant, PTL DEF StackInv

\* What conf says of the compose file is true, unless a cleanup was torn.
THEOREM StackInitialized == Spec => []Initialized
BY StackInvariant, PTL DEF StackInv

\* A command that found the stack up leaves it up, or was killed or refused.
THEOREM StackComesBack == Spec => ComesBack
<1> DEFINE Back == before = "up" /\ pc' = "idle" => stack' = "up" \/ broken'
<1>1. StackInv /\ [Next]_vars => [Back]_vars
  <2> SUFFICES ASSUME TypeOK, Jobs, Next, before = "up", pc' = "idle"
               PROVE  stack' = "up" \/ broken'
    BY DEF StackInv
  <2> USE DEF Goes
  <2>0. pc \notin StoreSteps BY DEF Jobs
  <2>1. CASE StoreBegins \/ StackBegins \/ User
    BY <2>0, <2>1 DEF StoreBegins, BeginInit, BeginCleanup, StackBegins, BeginMake, BeginRestore,
                      BeginRebuild, Begin, Begins, User, StoreSteps
  <2>2. CASE StoreCommand
    BY <2>0, <2>2 DEF StoreCommand, InitCommand, CopyCompose, SetCompose, CreateSecrets,
                      CleanupCommand, RemoveImage, RemoveSecrets, RemoveCompose, RemoveConf,
                      Jobs, StoreSteps, CleanupSteps
  <2>3. CASE UtilityImage BY <2>3 DEF UtilityImage, EnsureImage, SetManaged
  <2>4. CASE UpAfterSnapshot \/ UpAtEnd
    BY <2>4 DEF UpAfterSnapshot, UpAtEnd, UpAgain, ComposeUp
  <2>5. CASE Refused \/ Killed BY <2>5 DEF Refused, Killed, Exits
  <2>6. CASE Stop \/ InitSnapshot \/ SnapshotFails \/ Down \/ RemoveCutShort \/ CreateVolumes
    BY <2>6 DEF Stop, InitSnapshot, SnapshotFails, Down, RemoveCutShort, AfterRemove, CreateVolumes
  <2>7. ASSUME NEW s \in Services, NEW files, Tar(s, files) \/ Untar(s, files) \/ RemoveVolume(s)
        PROVE  FALSE
    BY <2>7 DEF Tar, Untar, RemoveVolume, AfterRemove
  <2>8. CASE Work BY <2>0, <2>8 DEF Work, storeVars, StoreSteps
  <2> QED
    BY <2>1, <2>2, <2>3, <2>4, <2>5, <2>6, <2>7, <2>8
    DEF Next, StackCommand, DockerFault, RemoveMissing, TarAll, TarFails, UntarAll, UntarFails
<1> QED BY <1>1, StackInvariant, PTL DEF Spec, ComesBack
=============================================================================
