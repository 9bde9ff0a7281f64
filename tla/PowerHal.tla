------------------------------ MODULE PowerHal ------------------------------
(* The power HAL (src/power/power-aalto.c): hints that several threads of   *)
(* the system server give at once, and the one descriptor of the boostpulse *)
(* file that they open under the module's mutex and write to outside it.    *)
EXTENDS Integers, FiniteSets

CONSTANTS
  Threads,     \* the threads that give hints
  Fds,         \* the descriptors the process may have
  Governors,   \* the governors the kernel may run
  None,        \* boostpulse_fd = -1
  MaxOther,    \* how many descriptors other components hold at most
  MaxChanges   \* how often the kernel's governor changes at most

(* The governors the HAL knows a boostpulse file of.                        *)
Boostable == {"ondemand", "interactive"}

(* What a descriptor may refer to: nothing, another component's file, the   *)
(* boostpulse file of the governor that runs, or one whose governor is gone.*)
BoostFiles == {"live", "stale"}
FileStates == {"free", "other"} \cup BoostFiles

ASSUME PowerAssumption ==
  /\ Threads # {} /\ Governors # {}
  /\ IsFiniteSet(Fds) /\ Fds \subseteq Nat \ {0} /\ None \notin Fds
  /\ MaxOther \in Nat /\ MaxChanges \in Nat

VARIABLES
  kernel,      \* the governor the kernel runs
  tuned,       \* whether the HAL's tunables are written to that governor
  notify,      \* notify_on_migrate
  interactive, \* the state the system set last
  files,       \* the process's descriptors
  cm,          \* the module: boostpulse_fd, and the governor it read last
  th,          \* the hints in progress
  changes      \* governor changes so far

vars == <<kernel, tuned, notify, interactive, files, cm, th, changes>>

(* Where a hint is: waiting for the mutex, about to open, about to configure,*)
(* at the return of boostpulse_open, about to write, in write, after a      *)
(* write that failed.                                                       *)
Pcs == {"idle", "lock", "open", "configure", "return", "load", "write", "fail"}

TypeOK ==
  /\ kernel \in Governors /\ tuned \in BOOLEAN
  /\ notify \in BOOLEAN /\ interactive \in BOOLEAN
  /\ files \in [Fds -> FileStates]
  /\ cm \in [boostpulse_fd : Fds \cup {None}, governor : Governors]
  /\ th \in [Threads -> [pc : Pcs, fd : Fds \cup {None}]]
  /\ changes \in 0 .. MaxChanges

(* cm_power_init has run.                                                   *)
Init ==
  /\ kernel \in Governors /\ tuned = TRUE
  /\ notify = TRUE /\ interactive = TRUE
  /\ files = [f \in Fds |-> "free"]
  /\ cm = [boostpulse_fd |-> None, governor |-> kernel]
  /\ th = [t \in Threads |-> [pc |-> "idle", fd |-> None]]
  /\ changes = 0

-----------------------------------------------------------------------------
(* Descriptors.                                                             *)

Free == {f \in Fds : files[f] = "free"}

(* open() returns the lowest free descriptor.                               *)
Lowest(f) == f \in Free /\ \A g \in Free : f <= g

(* sysfs_write and sysfs_read need a descriptor while they run.             *)
SysfsWorks == Free # {}

(* A step of hint t from one place to another.                              *)
Goto(t, from, to) ==
  /\ th[t].pc = from
  /\ th' = [th EXCEPT ![t].pc = to]

(* Who holds cm->lock.                                                      *)
LockFree == \A u \in Threads : th[u].pc \notin {"open", "configure"}

-----------------------------------------------------------------------------
(* Hints.                                                                   *)

(* POWER_HINT_INTERACTION or POWER_HINT_CPU_BOOST.                          *)
PowerHint(t) ==
  /\ Goto(t, "idle", "lock")
  /\ UNCHANGED <<kernel, tuned, notify, interactive, files, cm, changes>>

(* boostpulse_open finds the file open.                                     *)
BoostpulseFound(t) ==
  /\ LockFree /\ cm.boostpulse_fd # None
  /\ Goto(t, "lock", "return")
  /\ UNCHANGED <<kernel, tuned, notify, interactive, files, cm, changes>>

(* Mutant. boostpulse_open does not wait for the mutex.                     *)
GetScalingGovernorUnlocked(t) ==
  /\ cm.boostpulse_fd = None /\ SysfsWorks
  /\ Goto(t, "lock", "open") /\ cm' = [cm EXCEPT !.governor = kernel]
  /\ UNCHANGED <<kernel, tuned, notify, interactive, files, changes>>

(* It does not, and reads the governor.                                     *)
GetScalingGovernor(t) ==
  /\ LockFree /\ cm.boostpulse_fd = None
  /\ IF SysfsWorks
       THEN Goto(t, "lock", "open") /\ cm' = [cm EXCEPT !.governor = kernel]
       ELSE Goto(t, "lock", "return") /\ cm' = cm
  /\ UNCHANGED <<kernel, tuned, notify, interactive, files, changes>>

(* It opens the boostpulse file of the governor it read, which is there if  *)
(* that governor still runs.                                                *)
OpenBoostpulse(t) ==
  /\ \/ /\ cm.governor \in Boostable /\ cm.governor = kernel
        /\ \E f \in Fds :
             /\ Lowest(f)
             /\ files' = [files EXCEPT ![f] = "live"]
             /\ cm' = [cm EXCEPT !.boostpulse_fd = f]
        /\ Goto(t, "open", "configure")
     \/ /\ cm.governor \notin Boostable \/ cm.governor # kernel \/ Free = {}
        /\ Goto(t, "open", "return")
        /\ UNCHANGED <<files, cm>>
  /\ UNCHANGED <<kernel, tuned, notify, interactive, changes>>

(* Mutant. The tunables are written by cm_power_init alone.                 *)
ConfigureGovernorOnce(t) ==
  /\ Goto(t, "configure", "return")
  /\ notify' = TRUE
  /\ UNCHANGED <<kernel, tuned, interactive, files, cm, changes>>

(* configure_governor: notify_on_migrate goes on whatever the system's state *)
(* is, and the tunables are written where the governor still runs.          *)
ConfigureGovernor(t) ==
  /\ Goto(t, "configure", "return")
  /\ notify' = (notify \/ SysfsWorks)
  /\ tuned' = \/ tuned
              \/ SysfsWorks /\ cm.governor \in Boostable /\ cm.governor = kernel
  /\ UNCHANGED <<kernel, interactive, files, cm, changes>>

(* boostpulse_open reads its result after it let go of the mutex.           *)
BoostpulseReturn(t) ==
  /\ Goto(t, "return", IF cm.boostpulse_fd = None THEN "idle" ELSE "load")
  /\ UNCHANGED <<kernel, tuned, notify, interactive, files, cm, changes>>

(* cm_power_hint reads the descriptor again.                                *)
LoadFd(t) ==
  /\ th[t].pc = "load"
  /\ th' = [th EXCEPT ![t] = [pc |-> "write", fd |-> cm.boostpulse_fd]]
  /\ UNCHANGED <<kernel, tuned, notify, interactive, files, cm, changes>>

(* write() succeeds on the governor that runs, and may on whatever another  *)
(* component has opened under that number.                                  *)
WriteResult(f) ==
  IF f = None THEN {"fail"}
  ELSE CASE files[f] = "live" -> {"idle"}
         [] files[f] = "other" -> {"idle", "fail"}
         [] OTHER -> {"fail"}

Write(t) ==
  /\ th[t].pc = "write"
  /\ \E res \in WriteResult(th[t].fd) :
       th' = [th EXCEPT ![t] = [pc |-> res, fd |-> None]]
  /\ UNCHANGED <<kernel, tuned, notify, interactive, files, cm, changes>>

(* Mutant. The descriptor is closed and kept.                               *)
CloseBoostpulseKeepsFd(t) ==
  /\ LockFree
  /\ Goto(t, "fail", "idle")
  /\ files' = [f \in Fds |-> IF f = cm.boostpulse_fd THEN "free" ELSE files[f]]
  /\ UNCHANGED <<kernel, tuned, notify, interactive, cm, changes>>

(* Mutant. A write that fails is only logged.                               *)
CloseBoostpulseOnlyLogs(t) ==
  /\ Goto(t, "fail", "idle")
  /\ UNCHANGED <<kernel, tuned, notify, interactive, files, cm, changes>>

(* After a write that failed the descriptor the module has now is closed.   *)
CloseBoostpulse(t) ==
  /\ LockFree
  /\ Goto(t, "fail", "idle")
  /\ files' = [f \in Fds |-> IF f = cm.boostpulse_fd THEN "free" ELSE files[f]]
  /\ cm' = [cm EXCEPT !.boostpulse_fd = None]
  /\ UNCHANGED <<kernel, tuned, notify, interactive, changes>>

-----------------------------------------------------------------------------
(* The rest of the system.                                                  *)

(* cm_power_set_interactive, called when the screen goes on and off.        *)
SetInteractive(on) ==
  /\ interactive' = on
  /\ notify' = IF SysfsWorks THEN on ELSE notify
  /\ UNCHANGED <<kernel, tuned, files, cm, th, changes>>

(* The kernel changes the governor: the old one's files go, and the new one *)
(* starts with its own tunables.                                            *)
ChangeGovernor(g) ==
  /\ changes < MaxChanges /\ g # kernel
  /\ kernel' = g /\ tuned' = FALSE /\ changes' = changes + 1
  /\ files' = [f \in Fds |-> IF files[f] = "live" THEN "stale" ELSE files[f]]
  /\ UNCHANGED <<notify, interactive, cm, th>>

(* Other components open and close files of their own.                      *)
OtherOpens ==
  /\ Cardinality({f \in Fds : files[f] = "other"}) < MaxOther
  /\ \E f \in Fds : Lowest(f) /\ files' = [files EXCEPT ![f] = "other"]
  /\ UNCHANGED <<kernel, tuned, notify, interactive, cm, th, changes>>

OtherCloses ==
  /\ \E f \in Fds : files[f] = "other" /\ files' = [files EXCEPT ![f] = "free"]
  /\ UNCHANGED <<kernel, tuned, notify, interactive, cm, th, changes>>

Advance(t) ==
  \/ BoostpulseFound(t) \/ GetScalingGovernor(t) \/ OpenBoostpulse(t)
  \/ ConfigureGovernor(t) \/ BoostpulseReturn(t) \/ LoadFd(t) \/ Write(t)
  \/ CloseBoostpulse(t)

Next ==
  \/ \E t \in Threads : PowerHint(t) \/ Advance(t)
  \/ \E on \in BOOLEAN : SetInteractive(on)
  \/ \E g \in Governors : ChangeGovernor(g)
  \/ OtherOpens \/ OtherCloses

Spec == Init /\ [][Next]_vars

(* A hint that was given goes on, and gets the mutex if it is free again    *)
(* and again. Nobody is bound to give one.                                  *)
FairSpec == Spec /\ \A t \in Threads : SF_vars(Advance(t))

-----------------------------------------------------------------------------
(* Properties.                                                              *)

(* Of all descriptors of the process exactly the one the module has, if it  *)
(* has one, is of a boostpulse file: none is leaked when two hints open at  *)
(* once or the governor goes, and the module never has one it closed        *)
(* (boostpulse_open, cm_power_hint).                                        *)
OneBoostDescriptor ==
  {f \in Fds : files[f] \in BoostFiles} = {cm.boostpulse_fd} \ {None}

(* No hint closes a file of another component, though a failed write closes *)
(* a number that may have been used again since the hint read it.           *)
OtherFilesKept ==
  [][th' # th => \A f \in Fds : files[f] = "other" => files'[f] = "other"]_vars

(* If hints reach the governor that runs, it has the HAL's tunables, however *)
(* often the governor changed (configure_governor follows every open).      *)
BoostTuned ==
  (\E f \in Fds : f = cm.boostpulse_fd /\ files[f] = "live")
    => tuned \/ \E t \in Threads : th[t].pc = "configure"

(* What the mutex makes true: one hint at a time is about to open, which it *)
(* does only without a descriptor, or about to configure what it opened.    *)
LockSection ==
  /\ \A t, u \in Threads :
       {th[t].pc, th[u].pc} \subseteq {"open", "configure"} => t = u
  /\ \A t \in Threads : th[t].pc = "open" => cm.boostpulse_fd = None

(* The inductive invariant behind OneBoostDescriptor and OtherFilesKept.    *)
BoostInv == TypeOK /\ LockSection /\ OneBoostDescriptor

(* Once the kernel stays with a governor the HAL knows and hints keep being *)
(* given, the module again and again has that governor's boostpulse file:   *)
(* a descriptor of a governor that is gone does not stay.                   *)
BoostRecovers ==
  <>[](kernel \in Boostable) /\ []<>(\E t \in Threads : th[t].pc = "lock")
    => []<>(\E f \in Fds : files[f] = "live")

=============================================================================
