------------------------------ MODULE BinCache ------------------------------
(***************************************************************************)
(* The cache of the bosh and terraform binaries (util/bincache).  Every    *)
(* command calls Download before it runs a binary (boshcli.New,            *)
(* terraform.New), and the commands of one machine share the file, which   *)
(* is named after its URL.  One URL is modelled.                           *)
(***************************************************************************)
CONSTANT Command        \* commands that are run on the machine, over and over

VARIABLES file,         \* what is at the path
          step,         \* where each command is
          left          \* history: something else than the binary was left there

cacheVars == <<file, step, left>>

CacheTypeOK ==
  /\ file \in {"none", "part", "whole", "other"}
  /\ step \in [Command -> {"idle", "open", "get", "copy", "run", "ran"}]
  /\ left \in BOOLEAN

CacheInit ==
  /\ file = "none"
  /\ step = [c \in Command |-> "idle"]
  /\ left = FALSE

Writing(c) == step[c] \in {"get", "copy"}

To(c, s) == step' = [step EXCEPT ![c] = s]

-----------------------------------------------------------------------------
\* A file that is there is taken for the binary.
Stat(c) ==
  /\ step[c] \in {"idle", "ran"}
  /\ To(c, IF file = "none" THEN "open" ELSE "run")
  /\ UNCHANGED <<file, left>>

\* Mutant: without O_EXCL, opening truncates the file that came meanwhile.
OpenAnyway(c) ==
  /\ step[c] = "open"
  /\ file' = "part" /\ To(c, "get")
  /\ UNCHANGED left

\* O_CREATE and O_EXCL: the command fails if the file came meanwhile.
Open(c) ==
  /\ step[c] = "open"
  /\ IF file = "none" THEN file' = "part" /\ To(c, "get")
                      ELSE UNCHANGED file /\ To(c, "idle")
  /\ UNCHANGED left

Get(c) ==
  /\ step[c] = "get"
  /\ To(c, "copy")
  /\ UNCHANGED <<file, left>>

\* Mutant: only a failing copy removes the file.
GetFailsKeeping(c) ==
  /\ step[c] = "get"
  /\ To(c, "idle")
  /\ UNCHANGED <<file, left>>

GetFails(c) ==
  /\ step[c] = "get"
  /\ file' = "none" /\ To(c, "idle")
  /\ UNCHANGED left

\* handleZipFile, when the answer is an archive that cannot be read: Download
\* returns no path and no error, and leaves the empty file.
BadArchive(c) ==
  /\ step[c] = "copy"
  /\ To(c, "idle") /\ left' = TRUE
  /\ UNCHANGED file

\* The status of the answer is not looked at: a page that reports an error is
\* kept as if it were the binary.
Copy(c) ==
  /\ step[c] = "copy"
  /\ \/ file' = "whole" /\ UNCHANGED left
     \/ file' = "other" /\ left' = TRUE
  /\ To(c, "run")

CopyFails(c) ==
  /\ step[c] = "copy"
  /\ file' = "none" /\ To(c, "idle")
  /\ UNCHANGED left

\* What is at the path by now is run.
RunBinary(c) ==
  /\ step[c] = "run"
  /\ To(c, IF file = "whole" THEN "ran" ELSE "idle")
  /\ UNCHANGED <<file, left>>

\* The command is killed while it writes; nobody removes what it wrote.
Kill(c) ==
  /\ Writing(c)
  /\ To(c, "idle") /\ left' = TRUE
  /\ UNCHANGED file

CacheNext ==
  \E c \in Command :
    \/ Stat(c) \/ Open(c) \/ Get(c) \/ GetFails(c) \/ BadArchive(c)
    \/ Copy(c) \/ CopyFails(c) \/ RunBinary(c) \/ Kill(c)

CacheSpec == CacheInit /\ [][CacheNext]_cacheVars

\* Commands come to their end and are repeated, and a server that is asked again
\* and again answers with the binary some time.
CacheFairness ==
  \A c \in Command :
    /\ WF_cacheVars(Stat(c) \/ Open(c) \/ Get(c) \/ RunBinary(c))
    /\ WF_cacheVars(Copy(c) \/ CopyFails(c))
    /\ SF_cacheVars(Get(c))
    /\ SF_cacheVars(Copy(c) /\ file' = "whole")
-----------------------------------------------------------------------------
\* A binary that was downloaded stays as it is, whoever else starts to download
\* it (Download stats the file and opens it in two steps).
WholeStays == [][file = "whole" => file' = "whole"]_cacheVars

\* A command that is repeated comes to run the binary, unless a download that
\* was killed or answered with something else left its file behind: downloads
\* that fail, and commands that come too early, take nothing from later ones
\* (Download removes what it could not complete).
BinaryIsRun == \A c \in Command : []<>(step[c] = "ran") \/ <>left
=============================================================================
