----------------------------- MODULE SwapProofs -----------------------------
(***************************************************************************)
(* The swap file, for every set of sizes the configuration may take.       *)
(***************************************************************************)
EXTENDS Swap, TLAPS

USE DEF PCs, EnsureFile, EnsureActive, EnsureLine, GivesUp

\* The files a run starts from or creates.
LEMMA FileType == NoFile \in File /\ \A n \in Nat : Blank(n) \in File
  BY DEF NoFile, File, Blank

\* A swap file is known by its size, and is a file.
LEMMA SwapFile ==
  /\ ~NoFile.swap
  /\ \A f \in File : f.swap => f = [gb |-> f.gb, swap |-> TRUE]
  /\ \A n \in Nat : /\ [gb |-> n, swap |-> TRUE].gb = n
                    /\ [gb |-> n, swap |-> TRUE].swap
                    /\ Blank(n).gb = n
<1>1. ASSUME NEW f \in File, f.swap PROVE f = [gb |-> f.gb, swap |-> TRUE]
  <2>1. f = [gb |-> f.gb, swap |-> f.swap]
    BY DEF File
  <2>2. f.swap = TRUE
    BY <1>1 DEF File
  <2> QED
    BY <2>1, <2>2
<1> QED
  BY <1>1 DEF NoFile, Blank

\* Initial states have the right types.
LEMMA InitType == Init => TypeOK
<1> SUFFICES ASSUME Init PROVE TypeOK
  OBVIOUS
<1>1. file \in File /\ tmp \in File
  BY FileType DEF Init
<1>2. fstab \in BOOLEAN /\ active \in BOOLEAN /\ clean \in BOOLEAN
  BY DEF Init
<1> QED
  BY <1>1, <1>2 DEF Init, TypeOK

\* Steps keep the types.
LEMMA NextType == TypeOK /\ [Next]_vars => TypeOK'
<1> SUFFICES ASSUME TypeOK, [Next]_vars PROVE TypeOK'
  OBVIOUS
<1> USE DEF TypeOK, Next, Step, vars, Run, SwapOff, Unlink, DropLine, RmTmp, Dd, MkSwap,
            Mv, SwapOn, AddLine, CleanUp, Reboot
<1>1. pc' \in PCs /\ want' \in Nat
  BY SwapAssumption
<1>2. file' \in File /\ tmp' \in File
  <2>1. [gb |-> tmp.gb, swap |-> TRUE] \in File
    BY DEF File
  <2>2. \A n \in 0..want : Blank(n) \in File
    BY FileType
  <2> QED
    BY <2>1, <2>2, FileType
<1>3. fstab' \in BOOLEAN /\ active' \in BOOLEAN /\ clean' \in BOOLEAN
  OBVIOUS
<1> QED
  BY <1>1, <1>2, <1>3

\* Initial states satisfy the inductive invariant.
LEMMA InitIInv == Init => IInv
  BY InitType DEF Init, IInv, NeverBroken, HeldFileStays, Converges, Building, Built,
                  Removing, Attaching

\* Every command keeps the invariant, whether it fails or not.
LEMMA NextIInv == IInv /\ [Next]_vars => IInv'
<1> SUFFICES ASSUME IInv, [Next]_vars PROVE IInv'
  OBVIOUS
<1>0. TypeOK /\ TypeOK'
  BY NextType DEF IInv
<1> USE <1>0, FileType, SwapFile
    DEF IInv, NeverBroken, HeldFileStays, Converges, Building, Built, Removing, Attaching
<1>1. CASE Run
  BY <1>1 DEF Run, TypeOK
<1>2. CASE SwapOff
  BY <1>2 DEF SwapOff
<1>3. CASE Unlink
  BY <1>3 DEF Unlink
<1>4. CASE DropLine
  BY <1>4 DEF DropLine, TypeOK
<1>5. CASE RmTmp
  BY <1>5 DEF RmTmp
<1>6. CASE Dd
  BY <1>6 DEF Dd
<1>7. CASE MkSwap
  BY <1>7 DEF MkSwap, TypeOK
<1>8. CASE Mv
  BY <1>8 DEF Mv, TypeOK
<1>9. CASE SwapOn
  BY <1>9 DEF SwapOn, TypeOK
<1>10. CASE AddLine
  BY <1>10 DEF AddLine, TypeOK
<1>11. CASE CleanUp
  BY <1>11 DEF CleanUp
<1>12. CASE Reboot
  BY <1>12 DEF Reboot, TypeOK
<1>13. CASE UNCHANGED vars
  BY <1>13 DEF vars
<1> QED
  BY <1>1, <1>2, <1>3, <1>4, <1>5, <1>6, <1>7, <1>8, <1>9, <1>10, <1>11, <1>12, <1>13
  DEF Next, Step

\* The inductive invariant holds in every reachable state.
THEOREM Invariance == Spec => []IInv
  BY InitIInv, NextIInv, PTL DEF Spec

\* Whatever fails and wherever a run is cut short, at whatever sizes, /swapfile is
\* never a broken one (setup_swap builds it beside and moves it).
THEOREM SwapNeverBroken == Spec => []NeverBroken
<1>1. IInv => NeverBroken
  BY DEF IInv
<1> QED
  BY <1>1, Invariance, PTL

\* No run removes or replaces a swap file the kernel holds (remove_swap).
THEOREM SwapHeldFileStays == Spec => []HeldFileStays
<1>1. IInv => HeldFileStays
  BY DEF IInv
<1> QED
  BY <1>1, Invariance, PTL

\* A run in which nothing fails leaves what the configuration asks for, from
\* whatever state earlier failures and reboots left.
THEOREM SwapConverges == Spec => []Converges
<1>1. IInv => Converges
  BY DEF IInv
<1> QED
  BY <1>1, Invariance, PTL
=============================================================================
