---------------------------- MODULE DockerStack ----------------------------
(***************************************************************************)
(* DockerComposeStack.ts: how the CLI makes and restores snapshots of the  *)
(* volumes of the stack, and rebuilds services, while it stops and starts  *)
(* the containers.  Docker refuses a call, tar fails unnoticed, and the    *)
(* command is killed, at any step.                                         *)
(***************************************************************************)
EXTENDS DockerStore

CONSTANTS
  MaxNow,        \* bound: moments at which the services write
  MaxSnapshots   \* bound: snapshots at a time

ASSUME BoundsAssumption == MaxNow \in Nat /\ MaxSnapshots \in Nat

VARIABLES
  stack,       \* of the containers, as currentState tells it
  volumes,     \* services whose volume is there
  data,        \* of each volume
  now,
  spoilt,      \* files were extracted where a removal was cut short (history)
  broken,      \* Docker refused a call of the last command, or it was killed (likewise)
  job,         \* of the process: "make", "restore", "rebuild" or "none"
  before,      \* beforeState
  backup,      \* rebuildService makes a snapshot first
  services,    \* of rebuildService and restoreSnapshot
  picked,      \* index of the snapshot to restore
  todo,        \* services a loop has not come to
  lapse,       \* the backup failed, or a tar of it (history of the command)
  cut,         \* the removal of the volumes was cut short (likewise)
  wanted       \* what the services to rebuild held at first (likewise)

hostVars == <<stack, volumes, data, now, spoilt, broken>>
jobVars == <<job, before, backup, services, picked, lapse, cut, wanted>>
vars == <<storeVars, hostVars, jobVars, todo>>

Nothing == [s \in Services |-> {}]

Init ==
  /\ StoreInit
  /\ stack = "down" /\ volumes = {} /\ data = Nothing /\ now = 0 /\ spoilt = FALSE
  /\ broken = FALSE
  /\ job = "none" /\ before = "down" /\ backup = FALSE /\ services = {} /\ picked = 0
  /\ todo = {} /\ lapse = FALSE /\ cut = FALSE /\ wanted = Nothing

\* The process ends, and what it knew is gone.
Exits(wrong) ==
  /\ Goes("idle") /\ broken' = wrong
  /\ job' = "none" /\ before' = "down" /\ backup' = FALSE /\ services' = {} /\ picked' = 0
  /\ todo' = {} /\ lapse' = FALSE /\ cut' = FALSE /\ wanted' = Nothing

StoreSame == UNCHANGED <<removing, torn, conf, composeIn, secretsIn>>

-----------------------------------------------------------------------------
(* The commands *)

Begin(j, step, ss) ==
  /\ Begins(step)
  /\ job' = j /\ services' = ss /\ before' = stack /\ broken' = FALSE
  /\ StoreSame
  /\ UNCHANGED <<snapshots, image, stack, volumes, data, now, spoilt, todo, lapse, cut>>

BeginMake ==
  /\ Len(snapshots) < MaxSnapshots
  /\ Begin("make", "stop", Services)
  /\ UNCHANGED <<backup, picked, wanted>>

\* A snapshot of the list, or the last one; canRestore looks for its directory.
BeginRestore ==
  /\ Begin("restore", "down", Services)
  /\ picked' \in 1..Len(snapshots)
  /\ UNCHANGED <<backup, wanted>>

\* Mistake: the backup is made unless it is asked for.
BeginRebuildUnsafe(ss, b) ==
  /\ ss # {} /\ (~b => Len(snapshots) < MaxSnapshots)
  /\ Begin("rebuild", IF b THEN "down" ELSE "stop", ss)
  /\ backup' = b
  /\ wanted' = [s \in Services |-> IF b /\ s \in ss THEN data[s] ELSE {}]
  /\ UNCHANGED picked

BeginRebuild(ss, b) ==
  /\ ss # {} /\ (b => Len(snapshots) < MaxSnapshots)
  /\ Begin("rebuild", IF b THEN "stop" ELSE "down", ss)
  /\ backup' = b
  /\ wanted' = [s \in Services |-> IF b /\ s \in ss THEN data[s] ELSE {}]
  /\ UNCHANGED picked

\* up of docker-compose creates the volumes that are not there.
ComposeUp == stack' = "up" /\ volumes' = Services

-----------------------------------------------------------------------------
(* makeSnapshot, also of a rebuild: its finally starts the stack again *)

\* Mistake: stop returns early from a stack that is up.
StopEarly ==
  /\ pc = "stop" /\ Goes("directory")
  /\ StoreSame
  /\ UNCHANGED <<snapshots, image, hostVars, jobVars, todo>>

Stop ==
  /\ pc = "stop" /\ Goes("directory")
  /\ stack' = IF stack = "up" THEN "stopped" ELSE stack
  /\ StoreSame
  /\ UNCHANGED <<snapshots, image, volumes, data, now, spoilt, broken, jobVars, todo>>

InitSnapshot ==
  /\ pc = "directory" /\ Goes("image")
  /\ snapshots' = Append(snapshots, Nothing)
  /\ todo' = Services
  /\ StoreSame
  /\ UNCHANGED <<image, hostVars, jobVars>>

UtilityImage ==
  /\ LET step == IF job = "restore" THEN "untar" ELSE "tar"
     IN EnsureImage(step) \/ SetManaged(step)
  /\ UNCHANGED <<hostVars, jobVars, todo>>

\* A volume that is not there is created.
Tar(s, files) ==
  /\ pc = "tar" /\ s \in todo
  /\ snapshots' = [snapshots EXCEPT ![Len(snapshots)][s] = files]
  /\ volumes' = volumes \cup {s}
  /\ todo' = todo \ {s} /\ Goes(IF todo' = {} THEN "up" ELSE "tar")
  /\ StoreSame
  /\ UNCHANGED <<image, stack, data, now, spoilt, broken,
                 job, before, backup, services, picked, cut, wanted>>

\* The exit code of tar is not looked at.
TarAll(s) == Tar(s, data[s]) /\ UNCHANGED lapse
TarFails(s) == Tar(s, {0}) /\ lapse' = TRUE

\* The error of the snapshot is logged.
SnapshotFails ==
  /\ pc \in {"directory", "image", "pulled", "tar"} /\ job # "restore"
  /\ Goes("up") /\ todo' = {} /\ lapse' = TRUE
  /\ StoreSame
  /\ UNCHANGED <<snapshots, image, hostVars,
                 job, before, backup, services, picked, cut, wanted>>

\* Mistake: the stack is started when it was stopped.
UpStopped == IF before = "stopped" THEN ComposeUp ELSE UNCHANGED <<stack, volumes>>

\* up, where the stack was up before.
UpAgain == IF before = "up" THEN ComposeUp ELSE UNCHANGED <<stack, volumes>>

\* A rebuild goes on, from the state it finds now.
UpAfterSnapshot ==
  /\ pc = "up" /\ UpAgain
  /\ IF backup
     THEN /\ Goes("down") /\ before' = stack'
          /\ UNCHANGED <<broken, job, backup, services, picked, todo, lapse, cut, wanted>>
     ELSE Exits(FALSE)
  /\ StoreSame
  /\ UNCHANGED <<snapshots, image, data, now, spoilt>>

-----------------------------------------------------------------------------
(* restoreSnapshot and the rest of rebuildService *)

\* Mistake: down returns early from a stack that is up.
DownEarly ==
  /\ pc = "down" /\ Goes("remove")
  /\ todo' = services
  /\ StoreSame
  /\ UNCHANGED <<snapshots, image, hostVars, jobVars>>

Down ==
  /\ pc = "down" /\ Goes("remove")
  /\ stack' = "down" /\ todo' = services
  /\ StoreSame
  /\ UNCHANGED <<snapshots, image, volumes, data, now, spoilt, broken, jobVars>>

AfterRemove == IF job = "restore" THEN "create" ELSE "upAgain"

\* Mistake: the volume stays.
KeepVolume(s) ==
  /\ pc = "remove" /\ s \in todo \cap volumes
  /\ todo' = todo \ {s} /\ Goes(IF todo' = {} THEN AfterRemove ELSE "remove")
  /\ StoreSame
  /\ UNCHANGED <<snapshots, image, hostVars, jobVars>>

RemoveVolume(s) ==
  /\ pc = "remove" /\ s \in todo \cap volumes
  /\ volumes' = volumes \ {s} /\ data' = [data EXCEPT ![s] = {}]
  /\ todo' = todo \ {s} /\ Goes(IF todo' = {} THEN AfterRemove ELSE "remove")
  /\ StoreSame
  /\ UNCHANGED <<snapshots, image, stack, now, spoilt, broken, jobVars>>

\* The first error ends the loop, and is logged.
RemoveCutShort ==
  /\ pc = "remove" /\ Goes(AfterRemove)
  /\ todo' = {} /\ cut' = TRUE
  /\ StoreSame
  /\ UNCHANGED <<snapshots, image, hostVars,
                 job, before, backup, services, picked, lapse, wanted>>

\* The volume is not there.
RemoveMissing == todo \ volumes # {} /\ RemoveCutShort

CreateVolumes ==
  /\ pc = "create" /\ Goes("image")
  /\ volumes' = Services /\ todo' = Services
  /\ StoreSame
  /\ UNCHANGED <<snapshots, image, stack, data, now, spoilt, broken, jobVars>>

\* tar extracts over the files that are there.
Untar(s, files) ==
  /\ pc = "untar" /\ s \in todo
  /\ data' = [data EXCEPT ![s] = @ \cup files]
  /\ spoilt' = (spoilt \/ cut)
  /\ todo' = todo \ {s} /\ Goes(IF todo' = {} THEN "upAgain" ELSE "untar")
  /\ StoreSame
  /\ UNCHANGED <<snapshots, image, stack, volumes, now, broken, jobVars>>

UntarAll(s) == Untar(s, snapshots[picked][s])
UntarFails(s) == Untar(s, {0})

UpAtEnd ==
  /\ pc = "upAgain" /\ UpAgain
  /\ Exits(FALSE)
  /\ StoreSame
  /\ UNCHANGED <<snapshots, image, data, now, spoilt>>

\* Docker refuses what no catch is around.
Refused ==
  /\ \/ pc \in {"stop", "down", "up", "upAgain"}
     \/ pc \in {"create", "image", "pulled", "untar"} /\ job = "restore"
  /\ Exits(TRUE)
  /\ StoreSame
  /\ UNCHANGED <<snapshots, image, stack, volumes, data, now, spoilt>>

-----------------------------------------------------------------------------
(* Around the command *)

\* The files are of one moment.
Whole(files) == \A m, n \in files \ {0} : m = n

\* The services write while the stack is up; what is mixed stays mixed.
Work ==
  /\ stack = "up" /\ now < MaxNow
  /\ now' = now + 1
  /\ data' = [s \in Services |->
               {now'} \cup (IF Whole(data[s]) THEN data[s] \cap {0} ELSE data[s])]
  /\ UNCHANGED <<storeVars, stack, volumes, spoilt, broken, jobVars, todo>>

\* docker compose by the user, between commands.
User ==
  /\ pc = "idle"
  /\ \/ ComposeUp
     \/ stack' \in {"stopped", "down"} /\ UNCHANGED volumes
  /\ UNCHANGED <<storeVars, data, now, spoilt, broken, jobVars, todo>>

Killed ==
  /\ pc # "idle" /\ Exits(TRUE)
  /\ removing' = FALSE /\ torn' = (torn \/ pc = "removeConf")
  /\ UNCHANGED <<conf, composeIn, secretsIn, snapshots, image, stack, volumes, data, now, spoilt>>

-----------------------------------------------------------------------------
StoreBegins ==
  \/ \E d \in Dirs : BeginInit(d)
  \/ \E force \in BOOLEAN : BeginCleanup(force)

StoreCommand == (InitCommand \/ CleanupCommand) /\ UNCHANGED <<hostVars, jobVars, todo>>

StackCommand ==
  \/ Stop \/ InitSnapshot \/ UtilityImage \/ UpAfterSnapshot
  \/ Down \/ RemoveMissing \/ CreateVolumes \/ UpAtEnd
  \/ \E s \in Services : TarAll(s) \/ RemoveVolume(s) \/ UntarAll(s)

StackBegins ==
  \/ BeginMake \/ BeginRestore
  \/ \E ss \in SUBSET Services, b \in BOOLEAN : BeginRebuild(ss, b)

DockerFault ==
  \/ SnapshotFails \/ RemoveCutShort \/ Refused
  \/ \E s \in Services : TarFails(s) \/ UntarFails(s)

Next ==
  \/ StoreBegins /\ UNCHANGED <<hostVars, jobVars, todo>>
  \/ StackBegins
  \/ StoreCommand \/ StackCommand \/ DockerFault \/ Killed
  \/ Work \/ User

Spec == Init /\ [][Next]_vars

-----------------------------------------------------------------------------
(* Properties *)

Contents == SUBSET (0..MaxNow)

\* The variables keep the shapes above; a stack that is up has all its volumes, and
\* no data is where there is no volume.
TypeOK ==
  /\ pc \in {"idle", "copy", "created", "secrets", "removeSecrets", "removeCompose", "removeConf",
             "finally", "cleaned", "stop", "directory", "image", "pulled", "tar", "untar", "up", "upAgain",
             "down", "remove", "create"}
  /\ {image, removing, torn, compose, managed, backup, lapse, cut, spoilt, broken} \subseteq BOOLEAN
  /\ workdir \in Dirs \cup {"none"} /\ composeIn \subseteq Dirs /\ secretsIn \subseteq Dirs
  /\ snapshots \in Seq([Services -> Contents]) /\ picked \in Nat
  /\ {stack, before} \subseteq {"up", "stopped", "down"}
  /\ volumes \subseteq Services /\ services \subseteq Services /\ todo \subseteq Services
  /\ data \in [Services -> Contents] /\ wanted \in [Services -> Contents]
  /\ now \in 0..MaxNow /\ job \in {"none", "make", "restore", "rebuild"}
  /\ stack = "up" => volumes = Services
  /\ \A s \in Services \ volumes : data[s] = {}

\* AtRest: tar reads and writes the volumes of the services only while no container
\* runs ("stop" before the snapshot, "down" before the restore).
AtRest == pc \in {"tar", "untar"} => stack # "up"

\* Restored: when a restore has extracted the archives, each volume holds exactly what
\* was archived of it, or tar has failed, or the removal of the volumes was cut short.
Restored ==
  pc = "upAgain" /\ job = "restore" /\ ~cut =>
    \A s \in Services : data[s] = snapshots[picked][s] \/ 0 \in data[s]

\* NeverMixed: files of two moments come together in a volume, or in an archive, only
\* after a restore whose removal of the volumes was cut short.  Then they do: the next
\* restore of a killed one finds a volume missing, removes no other, and extracts over
\* their files.
NeverMixed ==
  ~spoilt =>
    \A s \in Services :
      /\ Whole(data[s])
      /\ \A i \in 1..Len(snapshots) : Whole(snapshots[i][s])

\* BackedUp: when a rebuild that was asked for a backup removes volumes, a snapshot has
\* all that they held when the command began, or later data in its place, unless the
\* backup, or a tar of it, has failed: the rebuild then goes on all the same.
BackedUp ==
  pc = "remove" /\ job = "rebuild" /\ backup /\ ~lapse =>
    \A s \in services : \A m \in wanted[s] :
      \E i \in 1..Len(snapshots) : \E n \in snapshots[i][s] : n >= m

\* ComesBack: a command that found the stack up leaves it up, unless it is killed or
\* Docker refuses a call outside the backup and the removal, which may fail: their
\* errors go on to up, of a rebuild twice.
ComesBack ==
  [][before = "up" /\ pc' = "idle" => stack' = "up" \/ broken']_vars

\* Initialized: a host whose conf says that the compose file is created has one, in the
\* directory of some init, unless a cleanup was torn between the two: init then finds it
\* "Already initialized", and copies none.
Initialized == compose /\ pc # "removeConf" => composeIn # {} \/ torn
=============================================================================
