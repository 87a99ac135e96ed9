----------------------------- MODULE LocalFiles -----------------------------
(***************************************************************************)
(* The files a command writes for the binaries it runs: the configuration  *)
(* of terraform (terraform/terraform.go), the state, variables and         *)
(* manifest of `bosh create-env` (xEnv in bosh/internal/boshcli), the      *)
(* working directory of `bosh deploy` and the pipeline that fly sets.      *)
(* Most of them hold secrets.  Those of create-env also come back: the     *)
(* caller stores what bosh made of them.                                   *)
(***************************************************************************)
EXTENDS Naturals

CONSTANT MaxChange      \* how often bosh changes the director VM, to bound a run

ASSUME ChangesAreCounted == MaxChange \in Nat

VARIABLES files,        \* the files there are
          doing,        \* what the command is doing
          director,     \* the state of the director VM, counted
          held,         \* the one that the state file tells of
          store,        \* the one the caller has: temporaryStore
          failed,       \* bosh create-env failed
          killed        \* history: a command was killed

filesVars == <<files, doing, director, held, store, failed, killed>>

EnvFile == {"state", "vars", "manifest"}
WorkFile == {"creds", "ca"}
FlyFile == {"fly", "pipeline"}
File == {"tf"} \union EnvFile \union WorkFile \union FlyFile

\* What is in a file is not for others, but for fly and a CA certificate.
Confidential == File \ {"fly", "ca"}

FilesTypeOK ==
  /\ files \subseteq File
  /\ doing \in {"idle", "init", "terraform", "vars", "manifest", "create-env", "return",
                "save", "login", "deploy", "clean up", "fly", "set", "pause",
                "fly clean up"}
  /\ director \in 0..MaxChange /\ held \in 0..MaxChange /\ store \in 0..MaxChange
  /\ failed \in BOOLEAN /\ killed \in BOOLEAN

FilesInit ==
  /\ files = {} /\ doing = "idle"
  /\ director = 0 /\ held = 0 /\ store = 0 /\ failed = FALSE /\ killed = FALSE

Goes(from, to) == doing = from /\ doing' = to
Writes(f) == files' = files \union f
Removes(f) == files' = files \ f
boshVars == <<director, held, store, failed>>

-----------------------------------------------------------------------------
\* Apply, Destroy and BuildOutput: writeTempFile, which removes what it could not
\* write, then `terraform init`.
WriteConfig ==
  /\ Goes("idle", "init") /\ Writes({"tf"})
  /\ UNCHANGED <<boshVars, killed>>

InitSucceeds ==
  /\ Goes("init", "terraform")
  /\ UNCHANGED <<files, boshVars, killed>>

\* Mutant: only what runs after `terraform init` removes the configuration.
InitFailsKeeping ==
  /\ Goes("init", "idle")
  /\ UNCHANGED <<files, boshVars, killed>>

\* The deferred removal of the callers is not in place yet.
InitFails ==
  /\ Goes("init", "idle") /\ Removes({"tf"})
  /\ UNCHANGED <<boshVars, killed>>

RunTerraform ==
  /\ Goes("terraform", "idle") /\ Removes({"tf"})
  /\ UNCHANGED <<boshVars, killed>>

-----------------------------------------------------------------------------
\* xEnv.  writeToDisk writes what the store has; what it does not have is a path
\* at which bosh will make the file.
WriteState ==
  /\ Goes("idle", "vars")
  /\ Writes(IF store = 0 THEN {} ELSE {"state"})
  /\ held' = store /\ failed' = FALSE
  /\ UNCHANGED <<director, store, killed>>

WriteVars ==
  /\ Goes("vars", "manifest")
  /\ Writes(IF store = 0 THEN {} ELSE {"vars"})
  /\ UNCHANGED <<boshVars, killed>>

WriteManifest ==
  /\ Goes("manifest", "create-env") /\ Writes({"manifest"})
  /\ UNCHANGED <<boshVars, killed>>

\* What was deferred so far takes place when a file cannot be written.
WriteFails ==
  /\ doing \in {"vars", "manifest"} /\ doing' = "return"
  /\ UNCHANGED <<files, boshVars, killed>>

\* bosh create-env, which keeps its state file up to date as it goes.
RunCreateEnv ==
  /\ Goes("create-env", "return")
  /\ director' \in {director} \union (IF director < MaxChange THEN {director + 1} ELSE {})
  /\ held' = director' /\ failed' \in BOOLEAN
  /\ Writes({"state", "vars"})
  /\ UNCHANGED <<store, killed>>

\* Mutant: the files are read back when bosh succeeded.
ReturnOnSuccess ==
  /\ Goes("return", "idle") /\ Removes(EnvFile)
  /\ store' = IF failed THEN store ELSE held
  /\ UNCHANGED <<director, held, failed, killed>>

\* The deferred uploads read what there is, whether or not bosh failed, and
\* remove it.
Return ==
  /\ Goes("return", "idle") /\ Removes(EnvFile)
  /\ store' = held
  /\ UNCHANGED <<director, held, failed, killed>>

-----------------------------------------------------------------------------
\* The commands for a director that is up, of which `bosh deploy` has most files:
\* New makes the working directory, saveFilesToWorkingDir fills it, and each
\* command adds the CA certificate of the director, elsewhere.
MakeWorkingDir ==
  /\ Goes("idle", "save")
  /\ UNCHANGED <<files, boshVars, killed>>

SaveFiles ==
  /\ Goes("save", "login") /\ Writes({"creds"})
  /\ UNCHANGED <<boshVars, killed>>

\* update-cloud-config and upload-stemcell write it too, and locks and recreate.
WriteCA ==
  /\ Goes("login", "deploy") /\ Writes({"ca"})
  /\ UNCHANGED <<boshVars, killed>>

\* bosh deploy to its end, or to where a self-update leaves it.
RunDeploy ==
  /\ Goes("deploy", "clean up") /\ Removes({"ca"})
  /\ UNCHANGED <<boshVars, killed>>

\* A file cannot be saved, or a step before bosh deploy fails.
DeployEndsEarly ==
  /\ doing \in {"save", "login"} /\ doing' = "clean up"
  /\ files' \in {files, files \union {"creds"}}
  /\ UNCHANGED <<boshVars, killed>>

\* Mutant: nobody cleans the working directory up.
NoCleanup ==
  /\ Goes("clean up", "idle")
  /\ UNCHANGED <<files, boshVars, killed>>

\* Cleanup of the BOSH client, deferred by deployBosh.
Cleanup ==
  /\ Goes("clean up", "idle") /\ Removes({"creds"})
  /\ UNCHANGED <<boshVars, killed>>

-----------------------------------------------------------------------------
\* fly.New downloads fly; what it has of it stays when that fails.
DownloadFly ==
  /\ doing = "idle" /\ doing' \in {"idle", "fly"} /\ Writes({"fly"})
  /\ UNCHANGED <<boshVars, killed>>

WritePipeline ==
  /\ Goes("fly", "set") /\ Writes({"pipeline"})
  /\ UNCHANGED <<boshVars, killed>>

RemovePipeline ==
  /\ Goes("set", "pause") /\ Removes({"pipeline"})
  /\ UNCHANGED <<boshVars, killed>>

\* SetDefaultPipeline returns, which it does after any step of its.
FlyReturns ==
  /\ doing \in {"fly", "set", "pause"} /\ doing' = "fly clean up"
  /\ UNCHANGED <<files, boshVars, killed>>

FlyCleanup ==
  /\ Goes("fly clean up", "idle") /\ Removes(FlyFile)
  /\ UNCHANGED <<boshVars, killed>>

-----------------------------------------------------------------------------
\* The command is killed; what it wrote stays.
KillCommand ==
  /\ doing # "idle" /\ doing' = "idle"
  /\ killed' = TRUE
  /\ UNCHANGED <<files, boshVars>>

FilesNext ==
  \/ WriteConfig \/ InitSucceeds \/ InitFails \/ RunTerraform
  \/ WriteState \/ WriteVars \/ WriteManifest \/ WriteFails \/ RunCreateEnv \/ Return
  \/ MakeWorkingDir \/ SaveFiles \/ WriteCA \/ RunDeploy \/ DeployEndsEarly \/ Cleanup
  \/ DownloadFly \/ WritePipeline \/ RemovePipeline \/ FlyReturns \/ FlyCleanup
  \/ KillCommand

FilesSpec == FilesInit /\ [][FilesNext]_filesVars
-----------------------------------------------------------------------------
\* Whatever fails, nothing confidential is left on the disk by commands that were
\* not killed (the deferred removals, and those of terraform's init).
NothingIsLeft == doing = "idle" /\ ~killed => files \intersect Confidential = {}

\* Whether or not create-env failed, the caller gets the state of the director
\* VM there is, to store it (the deferred uploads of xEnv).
CallerKnowsDirector == doing = "idle" /\ ~killed => store = director
=============================================================================
