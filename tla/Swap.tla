-------------------------------- MODULE Swap --------------------------------
(***************************************************************************)
(* The swap file of the VM (setup_swap and remove_swap in                  *)
(* infra/cloud-init.sh.tftpl).  The script runs at every boot, and by hand *)
(* between boots, for the size the configuration has by then.  Any command *)
(* of it may fail, and the VM may go down after any command.  Sizes are in *)
(* GB; what a command checks and changes is one step.                      *)
(***************************************************************************)
EXTENDS Naturals

CONSTANT Sizes  \* the sizes machine.swap_gb takes over time; 0 is no swap

ASSUME SwapAssumption == Sizes \subseteq Nat

VARIABLES pc,      \* the command that comes next
          want,    \* SWAP_GB of the run
          file,    \* /swapfile
          tmp,     \* /swapfile.tmp
          fstab,   \* the line in /etc/fstab
          active,  \* the kernel holds the swap file
          clean    \* history: no command of the run has failed

vars == <<pc, want, file, tmp, fstab, active, clean>>

\* A file on disk: how much of it is written, and whether mkswap is through.
File == [gb : Nat, swap : BOOLEAN]

NoFile == [gb |-> 0, swap |-> FALSE]

Blank(n) == [gb |-> n, swap |-> FALSE]

PCs == {"idle", "swapoff", "unlink", "dropLine", "rmTmp", "dd", "mkswap", "mv",
        "swapon", "addLine", "giveUp"}

TypeOK ==
  /\ pc \in PCs
  /\ want \in Nat
  /\ file \in File /\ tmp \in File
  /\ fstab \in BOOLEAN /\ active \in BOOLEAN /\ clean \in BOOLEAN

Init ==
  /\ pc = "idle" /\ want = 0
  /\ file = NoFile /\ tmp = NoFile
  /\ fstab = FALSE /\ active = FALSE /\ clean = FALSE

\* What is left to do once the file is in place.
EnsureLine(line) == IF line THEN "idle" ELSE "addLine"

EnsureActive(line) == IF active THEN EnsureLine(line) ELSE "swapon"

\* From the test that the file exists on.
EnsureFile(line) == IF file = NoFile THEN "rmTmp" ELSE EnsureActive(line)

Run ==
  /\ pc = "idle"
  /\ want' \in Sizes
  /\ pc' = IF want' = 0 \/ (file # NoFile /\ file.gb # want') THEN "swapoff"
                                                             ELSE EnsureFile(fstab)
  /\ clean' = TRUE
  /\ UNCHANGED <<file, tmp, fstab, active>>

\* A command that fails ends the run; a partial effect is its action's.
GivesUp == pc' = "giveUp" /\ clean' = FALSE

\* Mutant: what swapoff says is not looked at.
SwapOffUnchecked ==
  /\ pc = "swapoff"
  /\ active' \in {FALSE, active}
  /\ pc' = "unlink"
  /\ UNCHANGED <<want, file, tmp, fstab, clean>>

SwapOff ==
  /\ pc = "swapoff"
  /\ \/ active' = FALSE /\ pc' = "unlink" /\ UNCHANGED clean
     \/ active /\ UNCHANGED active /\ GivesUp
  /\ UNCHANGED <<want, file, tmp, fstab>>

\* rm -f: its failure is not looked at.
Unlink ==
  /\ pc = "unlink"
  /\ \/ file' = NoFile /\ tmp' = NoFile /\ UNCHANGED clean
     \/ clean' = FALSE /\ UNCHANGED <<file, tmp>>
  /\ pc' = "dropLine"
  /\ UNCHANGED <<want, fstab, active>>

DropLine ==
  /\ pc = "dropLine"
  /\ \/ /\ fstab' = FALSE
        /\ pc' = IF want = 0 THEN "idle" ELSE EnsureFile(FALSE)
        /\ UNCHANGED clean
     \/ GivesUp /\ UNCHANGED fstab
  /\ UNCHANGED <<want, file, tmp, active>>

\* Mutant: a file the last run left unfinished is kept.
KeepTmp ==
  /\ pc = "rmTmp"
  /\ pc' = IF tmp.gb > 0 THEN "mkswap" ELSE "dd"
  /\ UNCHANGED <<want, file, tmp, fstab, active, clean>>

RmTmp ==
  /\ pc = "rmTmp"
  /\ \/ tmp' = NoFile /\ UNCHANGED clean
     \/ clean' = FALSE /\ UNCHANGED tmp
  /\ pc' = "dd"
  /\ UNCHANGED <<want, file, fstab, active>>

\* Mutant: the file is built where it is used.
DdInPlace ==
  /\ pc = "dd"
  /\ \/ tmp' = Blank(want) /\ pc' = "mkswap" /\ UNCHANGED <<file, clean>>
     \/ GivesUp /\ UNCHANGED tmp /\ \E n \in 0..want : file' = Blank(n)
  /\ UNCHANGED <<want, fstab, active>>

\* dd and chmod: a full disk, or the VM going down, leaves a part of the file.
Dd ==
  /\ pc = "dd"
  /\ \/ tmp' = Blank(want) /\ pc' = "mkswap" /\ UNCHANGED clean
     \/ GivesUp /\ \E n \in 0..want : tmp' = Blank(n)
  /\ UNCHANGED <<want, file, fstab, active>>

MkSwap ==
  /\ pc = "mkswap"
  /\ \/ tmp' = [gb |-> tmp.gb, swap |-> TRUE] /\ pc' = "mv" /\ UNCHANGED clean
     \/ GivesUp /\ UNCHANGED tmp
  /\ UNCHANGED <<want, file, fstab, active>>

Mv ==
  /\ pc = "mv"
  /\ \/ /\ file' = tmp /\ tmp' = NoFile
        /\ pc' = EnsureActive(fstab)
        /\ UNCHANGED clean
     \/ GivesUp /\ UNCHANGED <<file, tmp>>
  /\ UNCHANGED <<want, fstab, active>>

SwapOn ==
  /\ pc = "swapon"
  /\ \/ file.swap /\ active' = TRUE /\ pc' = EnsureLine(fstab) /\ UNCHANGED clean
     \/ GivesUp /\ UNCHANGED active
  /\ UNCHANGED <<want, file, tmp, fstab>>

AddLine ==
  /\ pc = "addLine"
  /\ \/ fstab' = TRUE /\ pc' = "idle" /\ UNCHANGED clean
     \/ GivesUp /\ UNCHANGED fstab
  /\ UNCHANGED <<want, file, tmp, active>>

\* A run that failed removes what it was building, and provisioning goes on.
CleanUp ==
  /\ pc = "giveUp"
  /\ tmp' \in {NoFile, tmp}
  /\ pc' = "idle"
  /\ UNCHANGED <<want, file, fstab, active, clean>>

\* The VM goes down and boots: the swap of fstab is activated if it can be.
Reboot ==
  /\ pc' = "idle"
  /\ active' \in {FALSE, fstab /\ file.swap}
  /\ clean' = FALSE
  /\ UNCHANGED <<want, file, tmp, fstab>>

Step ==
  \/ SwapOff \/ Unlink \/ DropLine \/ RmTmp \/ Dd \/ MkSwap \/ Mv
  \/ SwapOn \/ AddLine \/ CleanUp

Next == Run \/ Step \/ Reboot

Spec == Init /\ [][Next]_vars

-----------------------------------------------------------------------------
\* The swap file is never a broken one, whatever failed or was cut short and at
\* whatever size: "a failure ... never leaves a broken /swapfile".
NeverBroken == file # NoFile => file.gb > 0 /\ file.swap

\* A swap file the kernel holds is neither removed nor replaced ("Never unlink a
\* swapfile the kernel still holds"), and no second file is built beside one.
HeldFileStays ==
  /\ active => file # NoFile
  /\ file = NoFile \/ tmp = NoFile

\* A run without a failure converges, whatever earlier runs, failures and reboots
\* left: the file has the size, is in use and comes back at boot, or with size 0
\* nothing of it is left; and no half-built file fills the disk.
Converges ==
  pc = "idle" /\ clean =>
    /\ IF want = 0 THEN file = NoFile ELSE file = [gb |-> want, swap |-> TRUE]
    /\ active <=> want > 0
    /\ fstab <=> want > 0
    /\ tmp = NoFile

\* What makes these inductive: how far the run is tells what is on the disk.
Building ==
  pc \in {"rmTmp", "dd", "mkswap", "mv"} => file = NoFile /\ ~active /\ want > 0

Built ==
  /\ pc = "mkswap" => tmp = Blank(want)
  /\ pc = "mv" => tmp = [gb |-> want, swap |-> TRUE]

Removing ==
  /\ pc \in {"unlink", "dropLine"} => ~active
  /\ pc = "dropLine" /\ clean => file = NoFile /\ tmp = NoFile

Attaching ==
  /\ pc \in {"swapon", "addLine"} => file # NoFile /\ want > 0
  /\ pc \in {"swapon", "addLine"} /\ clean => file.gb = want
  /\ pc = "swapon" => ~active
  /\ pc = "addLine" => active /\ ~fstab

\* The inductive invariant.
IInv ==
  /\ TypeOK
  /\ NeverBroken /\ HeldFileStays /\ Converges
  /\ Building /\ Built /\ Removing /\ Attaching
  /\ pc = "giveUp" => ~clean
=============================================================================
