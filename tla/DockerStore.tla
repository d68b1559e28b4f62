---------------------------- MODULE DockerStore ----------------------------
(***************************************************************************)
(* What the CLI keeps on the host: DockerStore.ts, a conf file beside the  *)
(* directory of the snapshots, and the utility image of DockerClient.ts.   *)
(* The commands init and cleanup work on it alone.                         *)
(*                                                                         *)
(* A command of the CLI is a process of its own: pc is the call it waits   *)
(* for.  It may be killed there, and only the host's state remains.        *)
(***************************************************************************)
EXTENDS Naturals, Sequences

CONSTANTS
  Dirs,        \* directories init is called for
  Services     \* stateful services; each has one volume (services.ts)

ASSUME DirsAssumption == "none" \notin Dirs

(* The data of a volume, or in an archive of it: the moments it was written at,  *)
(* one unless it is mixed, with 0 when files are missing.  An archive that is    *)
(* not there is empty: tar fails to extract it, which nobody reads.              *)

VARIABLES
  pc,          \* the call the command waits for
  removing,    \* DockerClient.cleanup waits for image.remove
  workdir,     \* conf: workingDirectory
  compose,     \* conf: compose is set
  managed,     \* conf: managedImages holds the utility image
  composeIn,   \* directories with a docker-compose.yml
  secretsIn,   \* directories with config/secrets
  snapshots,   \* directories in snapshotsDir, the latest last: an archive per service
  image,       \* the utility image is on the host
  torn         \* a cleanup ended between the compose file and the conf (history)

conf == <<workdir, compose, managed>>
storeVars == <<pc, removing, torn, conf, composeIn, secretsIn, snapshots, image>>

StoreInit ==
  /\ pc = "idle" /\ torn = FALSE /\ removing = FALSE
  /\ workdir = "none" /\ compose = FALSE /\ managed = FALSE
  /\ composeIn = {} /\ secretsIn = {} /\ snapshots = <<>>
  /\ image \in BOOLEAN

Goes(step) == pc' = step
Begins(step) == pc = "idle" /\ Goes(step)

-----------------------------------------------------------------------------
(* init: DockerComposeStack.init, which returns early when conf knows a      *)
(* compose file of any directory, then createSecrets.                        *)

BeginInit(d) ==
  /\ Begins(IF compose THEN "secrets" ELSE "copy")
  /\ workdir' = d
  /\ UNCHANGED <<removing, torn, compose, managed, composeIn, secretsIn, snapshots, image>>

\* Mistake: conf is set, and nobody waits for the copy.
SetComposeOnly ==
  /\ pc = "copy" /\ Goes("secrets")
  /\ compose' = TRUE
  /\ UNCHANGED <<removing, torn, workdir, managed, composeIn, secretsIn, snapshots, image>>

CopyCompose ==
  /\ pc = "copy" /\ Goes("created")
  /\ composeIn' = composeIn \cup {workdir}
  /\ UNCHANGED <<removing, torn, conf, secretsIn, snapshots, image>>

SetCompose ==
  /\ pc = "created" /\ Goes("secrets")
  /\ compose' = TRUE
  /\ UNCHANGED <<removing, torn, workdir, managed, composeIn, secretsIn, snapshots, image>>

CreateSecrets ==
  /\ pc = "secrets" /\ Goes("idle")
  /\ secretsIn' = secretsIn \cup {workdir}
  /\ UNCHANGED <<removing, torn, conf, composeIn, snapshots, image>>

-----------------------------------------------------------------------------
(* ensureUtilityImageAvailable, on the way to step *)

EnsureImage(step) ==
  /\ pc = "image"
  /\ IF image THEN Goes(step) /\ UNCHANGED image
     ELSE image' = TRUE /\ Goes("pulled")
  /\ UNCHANGED <<removing, torn, conf, composeIn, secretsIn, snapshots>>

SetManaged(step) ==
  /\ pc = "pulled" /\ Goes(step)
  /\ managed' = TRUE
  /\ UNCHANGED <<removing, torn, workdir, compose, composeIn, secretsIn, snapshots, image>>

-----------------------------------------------------------------------------
(* cleanup: unless the command is forced, DockerClient.cleanup removes the   *)
(* managed image, at the same time as the store removes the secrets, the     *)
(* compose file and, in a finally, the conf with the snapshots.  The first   *)
(* rejection ends the process.                                               *)

BeginCleanup(force) ==
  /\ Begins("removeSecrets")
  /\ removing' = (managed /\ ~force)
  /\ UNCHANGED <<torn, conf, composeIn, secretsIn, snapshots, image>>

RemoveImage ==
  /\ removing /\ removing' = FALSE
  /\ image' = FALSE
  /\ IF image
     THEN IF pc = "cleaned" THEN Goes("idle") ELSE UNCHANGED pc
     ELSE Goes("idle")
  /\ torn' = (torn \/ (pc = "removeConf" /\ ~image))
  /\ UNCHANGED <<conf, composeIn, secretsIn, snapshots>>

\* fs.stat throws when the directory, or below the file, is not there.
RemoveSecrets ==
  /\ pc = "removeSecrets"
  /\ secretsIn' = secretsIn \ {workdir}
  /\ Goes(IF workdir \in secretsIn THEN "removeCompose" ELSE "finally")
  /\ UNCHANGED <<removing, torn, conf, composeIn, snapshots, image>>

RemoveCompose ==
  /\ pc = "removeCompose"
  /\ composeIn' = IF compose THEN composeIn \ {workdir} ELSE composeIn
  /\ Goes(IF compose /\ workdir \notin composeIn THEN "finally" ELSE "removeConf")
  /\ UNCHANGED <<removing, torn, conf, secretsIn, snapshots, image>>

\* A removal of the image that is still under way when the error ends the process
\* may come to its end at Docker.
RemoveConf ==
  /\ workdir' = "none" /\ compose' = FALSE /\ managed' = FALSE /\ snapshots' = <<>>
  /\ \/ /\ pc = "finally" /\ Goes("idle")
        /\ removing' = FALSE /\ image' \in {image, image /\ ~removing}
     \/ /\ pc = "removeConf" /\ UNCHANGED <<removing, image>>
        /\ IF removing THEN Goes("cleaned") ELSE Goes("idle")
  /\ torn' = FALSE
  /\ UNCHANGED <<composeIn, secretsIn>>

-----------------------------------------------------------------------------
InitCommand == CopyCompose \/ SetCompose \/ CreateSecrets
CleanupCommand == RemoveImage \/ RemoveSecrets \/ RemoveCompose \/ RemoveConf
=============================================================================
