-------------------------- MODULE PowerHal_proofs --------------------------
(* Theorems about PowerHal, for any number of hints, descriptors and        *)
(* governors.                                                               *)
EXTENDS PowerHal, TLAPS, FiniteSetTheorems

LEMMA InitInv == Init => BoostInv
  <1> SUFFICES ASSUME Init PROVE BoostInv
    OBVIOUS
  <1> USE PowerAssumption DEF Init
  <1>1. TypeOK
    BY DEF TypeOK, Pcs, FileStates, BoostFiles
  <1>2. LockSection
    BY DEF LockSection
  <1>3. OneBoostDescriptor
    BY DEF OneBoostDescriptor, BoostFiles
  <1> QED
    BY <1>1, <1>2, <1>3 DEF BoostInv

(* A step of hint t to a place outside the section leaves the section to    *)
(* whoever is in it.                                                        *)
LEMMA MoveOutside ==
  ASSUME TypeOK, LockSection, NEW t \in Threads,
         NEW pc \in Pcs \ {"open", "configure"}, NEW fd \in Fds \cup {None},
         th' = [th EXCEPT ![t] = [pc |-> pc, fd |-> fd]],
         cm' = cm
  PROVE  LockSection' /\ th' \in [Threads -> [pc : Pcs, fd : Fds \cup {None}]]
  <1>1. \A u \in Threads : th'[u].pc \in {"open", "configure"} => th'[u].pc = th[u].pc
    BY DEF TypeOK
  <1>2. LockSection'
    BY <1>1 DEF LockSection
  <1>3. th' \in [Threads -> [pc : Pcs, fd : Fds \cup {None}]]
    BY DEF TypeOK
  <1> QED
    BY <1>2, <1>3

(* A goto keeps th's type and moves one thread.                             *)
LEMMA GotoType ==
  ASSUME TypeOK, NEW t \in Threads, NEW from, NEW to \in Pcs, Goto(t, from, to)
  PROVE  /\ th[t].pc = from
         /\ th' = [th EXCEPT ![t] = [pc |-> to, fd |-> th[t].fd]]
         /\ th' \in [Threads -> [pc : Pcs, fd : Fds \cup {None}]]
         /\ \A u \in Threads : th'[u].pc = IF u = t THEN to ELSE th[u].pc
  <1>1. th \in [Threads -> [pc : Pcs, fd : Fds \cup {None}]]
    BY DEF TypeOK
  <1>2. th[t].pc = from /\ th' = [th EXCEPT ![t] = [th[t] EXCEPT !.pc = to]]
    BY DEF Goto
  <1>3. [th[t] EXCEPT !.pc = to] = [pc |-> to, fd |-> th[t].fd]
    BY <1>1
  <1>4. th' = [th EXCEPT ![t] = [pc |-> to, fd |-> th[t].fd]]
    BY <1>2, <1>3
  <1>5. th' \in [Threads -> [pc : Pcs, fd : Fds \cup {None}]]
    BY <1>1, <1>4
  <1>6. \A u \in Threads : th'[u].pc = IF u = t THEN to ELSE th[u].pc
    BY <1>1, <1>4
  <1> QED
    BY <1>2, <1>4, <1>5, <1>6

(* A hint that waits for the mutex or for the driver changes no descriptor. *)
LEMMA QuietSteps ==
  ASSUME BoostInv, NEW t \in Threads,
         \/ PowerHint(t) \/ BoostpulseFound(t) \/ BoostpulseReturn(t)
         \/ LoadFd(t) \/ Write(t)
  PROVE  BoostInv' /\ files' = files
  <1> USE DEF BoostInv
  <1>1. UNCHANGED <<kernel, tuned, notify, interactive, files, cm, changes>>
    BY DEF PowerHint, BoostpulseFound, BoostpulseReturn, LoadFd, Write
  <1>2. th[t].fd \in Fds \cup {None} /\ cm.boostpulse_fd \in Fds \cup {None}
    BY DEF TypeOK
  <1>3. PICK pc \in Pcs \ {"open", "configure"}, fd \in Fds \cup {None} :
          th' = [th EXCEPT ![t] = [pc |-> pc, fd |-> fd]]
    <2>1. CASE PowerHint(t)
      BY <2>1, <1>2, GotoType DEF PowerHint, Pcs
    <2>2. CASE BoostpulseFound(t)
      BY <2>2, <1>2, GotoType DEF BoostpulseFound, Pcs
    <2>3. CASE BoostpulseReturn(t)
      BY <2>3, <1>2, GotoType DEF BoostpulseReturn, Pcs
    <2>4. CASE LoadFd(t)
      BY <2>4, <1>2 DEF LoadFd, Pcs
    <2>5. CASE Write(t)
      BY <2>5 DEF Write, WriteResult, Pcs
    <2> QED
      BY <2>1, <2>2, <2>3, <2>4, <2>5
  <1>4. LockSection' /\ th' \in [Threads -> [pc : Pcs, fd : Fds \cup {None}]]
    BY <1>1, <1>3, MoveOutside
  <1>5. TypeOK'
    BY <1>1, <1>4 DEF TypeOK
  <1>6. OneBoostDescriptor'
    BY <1>1 DEF OneBoostDescriptor
  <1> QED
    BY <1>1, <1>4, <1>5, <1>6

(* The hint enters the section only when nobody is in it.                   *)
LEMMA GetScalingGovernorInv ==
  ASSUME BoostInv, NEW t \in Threads, GetScalingGovernor(t)
  PROVE  BoostInv' /\ files' = files
  <1> USE DEF BoostInv
  <1> DEFINE to == IF SysfsWorks THEN "open" ELSE "return"
  <1>1. /\ UNCHANGED <<kernel, tuned, notify, interactive, files, changes>>
        /\ cm.boostpulse_fd = None /\ LockFree
        /\ cm' \in {cm, [cm EXCEPT !.governor = kernel]}
        /\ Goto(t, "lock", to)
    BY DEF GetScalingGovernor
  <1>2. /\ \A u \in Threads : th'[u].pc = IF u = t THEN to ELSE th[u].pc
        /\ th' \in [Threads -> [pc : Pcs, fd : Fds \cup {None}]]
    BY <1>1, GotoType DEF Pcs
  <1>3. /\ cm' \in [boostpulse_fd : Fds \cup {None}, governor : Governors]
        /\ cm'.boostpulse_fd = None
    BY <1>1 DEF TypeOK
  <1>4. TypeOK'
    BY <1>1, <1>2, <1>3 DEF TypeOK
  <1>5. LockSection'
    BY <1>1, <1>2, <1>3 DEF LockSection, LockFree
  <1>6. OneBoostDescriptor'
    BY <1>1, <1>3 DEF OneBoostDescriptor
  <1> QED
    BY <1>1, <1>4, <1>5, <1>6

(* The one hint in the section opens only because there is no descriptor.   *)
LEMMA OpenBoostpulseInv ==
  ASSUME BoostInv, NEW t \in Threads, OpenBoostpulse(t)
  PROVE  BoostInv' /\ \A f \in Fds : files[f] = "other" => files'[f] = "other"
  <1> USE DEF BoostInv
  <1>1. UNCHANGED <<kernel, tuned, notify, interactive, changes>>
    BY DEF OpenBoostpulse
  <1>2. CASE Goto(t, "open", "return") /\ UNCHANGED <<files, cm>>
    <2>1. /\ th' = [th EXCEPT ![t] = [pc |-> "return", fd |-> th[t].fd]]
          /\ th[t].fd \in Fds \cup {None}
      BY <1>2, GotoType DEF Pcs, TypeOK
    <2>2. LockSection' /\ th' \in [Threads -> [pc : Pcs, fd : Fds \cup {None}]]
      BY <1>2, <2>1, MoveOutside DEF Pcs
    <2>3. TypeOK'
      BY <1>1, <1>2, <2>2 DEF TypeOK
    <2>4. OneBoostDescriptor'
      BY <1>2 DEF OneBoostDescriptor
    <2> QED
      BY <1>2, <2>2, <2>3, <2>4
  <1>3. CASE /\ Goto(t, "open", "configure")
             /\ \E f \in Fds : /\ Lowest(f)
                               /\ files' = [files EXCEPT ![f] = "live"]
                               /\ cm' = [cm EXCEPT !.boostpulse_fd = f]
    <2>1. PICK f \in Fds : /\ files[f] = "free"
                           /\ files' = [files EXCEPT ![f] = "live"]
                           /\ cm' = [cm EXCEPT !.boostpulse_fd = f]
      BY <1>3 DEF Lowest, Free
    <2>2. /\ th[t].pc = "open"
          /\ \A u \in Threads : th'[u].pc = IF u = t THEN "configure" ELSE th[u].pc
          /\ th' \in [Threads -> [pc : Pcs, fd : Fds \cup {None}]]
      BY <1>3, GotoType DEF Pcs
    <2>3. cm.boostpulse_fd = None
      BY <2>2 DEF LockSection
    <2>4. /\ cm' \in [boostpulse_fd : Fds \cup {None}, governor : Governors]
          /\ cm'.boostpulse_fd = f /\ f # None
      BY <2>1, PowerAssumption DEF TypeOK
    <2>5. /\ files' \in [Fds -> FileStates]
          /\ \A g \in Fds : files'[g] = IF g = f THEN "live" ELSE files[g]
      BY <2>1 DEF TypeOK, FileStates, BoostFiles
    <2>6. TypeOK'
      BY <1>1, <2>2, <2>4, <2>5 DEF TypeOK
    <2>7. LockSection'
      BY <2>2 DEF LockSection
    <2>8. \A g \in Fds : files[g] \notin BoostFiles
      BY <2>3 DEF OneBoostDescriptor
    <2>9. OneBoostDescriptor'
      BY <2>4, <2>5, <2>8 DEF OneBoostDescriptor, BoostFiles
    <2> QED
      BY <2>1, <2>5, <2>6, <2>7, <2>9
  <1> QED
    BY <1>2, <1>3 DEF OpenBoostpulse

LEMMA ConfigureGovernorInv ==
  ASSUME BoostInv, NEW t \in Threads, ConfigureGovernor(t)
  PROVE  BoostInv' /\ files' = files
  <1> USE DEF BoostInv
  <1>1. /\ UNCHANGED <<kernel, interactive, files, cm, changes>>
        /\ notify' \in BOOLEAN /\ tuned' \in BOOLEAN
        /\ Goto(t, "configure", "return")
    BY DEF ConfigureGovernor, TypeOK
  <1>2. /\ th' = [th EXCEPT ![t] = [pc |-> "return", fd |-> th[t].fd]]
        /\ th[t].fd \in Fds \cup {None}
    BY <1>1, GotoType DEF Pcs, TypeOK
  <1>3. LockSection' /\ th' \in [Threads -> [pc : Pcs, fd : Fds \cup {None}]]
    BY <1>1, <1>2, MoveOutside DEF Pcs
  <1>4. TypeOK'
    BY <1>1, <1>3 DEF TypeOK
  <1>5. OneBoostDescriptor'
    BY <1>1 DEF OneBoostDescriptor
  <1> QED
    BY <1>1, <1>3, <1>4, <1>5

(* What is closed is the module's own descriptor, or nothing, because the   *)
(* number is read under the mutex.                                          *)
LEMMA CloseBoostpulseInv ==
  ASSUME BoostInv, NEW t \in Threads, CloseBoostpulse(t)
  PROVE  BoostInv' /\ \A f \in Fds : files[f] = "other" => files'[f] = "other"
  <1> USE DEF BoostInv
  <1>1. /\ UNCHANGED <<kernel, tuned, notify, interactive, changes>>
        /\ LockFree /\ Goto(t, "fail", "idle")
        /\ files' = [f \in Fds |-> IF f = cm.boostpulse_fd THEN "free" ELSE files[f]]
        /\ cm' = [cm EXCEPT !.boostpulse_fd = None]
    BY DEF CloseBoostpulse
  <1>2. /\ \A u \in Threads : th'[u].pc = IF u = t THEN "idle" ELSE th[u].pc
        /\ th' \in [Threads -> [pc : Pcs, fd : Fds \cup {None}]]
    BY <1>1, GotoType DEF Pcs
  <1>3. /\ cm' \in [boostpulse_fd : Fds \cup {None}, governor : Governors]
        /\ cm'.boostpulse_fd = None
    BY <1>1 DEF TypeOK
  <1>4. files' \in [Fds -> FileStates]
    BY <1>1 DEF TypeOK, FileStates
  <1>5. TypeOK'
    BY <1>1, <1>2, <1>3, <1>4 DEF TypeOK
  <1>6. LockSection'
    BY <1>1, <1>2 DEF LockSection, LockFree
  <1>7. \A f \in Fds : files[f] \in BoostFiles => f = cm.boostpulse_fd
    BY DEF OneBoostDescriptor
  <1>8. \A f \in Fds : files'[f] \notin BoostFiles
    BY <1>1, <1>7 DEF BoostFiles
  <1>9. OneBoostDescriptor'
    BY <1>3, <1>8 DEF OneBoostDescriptor
  <1>10. \A f \in Fds : f = cm.boostpulse_fd => files[f] \in BoostFiles
    BY PowerAssumption DEF OneBoostDescriptor
  <1>11. \A f \in Fds : files[f] = "other" => files'[f] = "other"
    BY <1>1, <1>10 DEF BoostFiles
  <1> QED
    BY <1>5, <1>6, <1>9, <1>11

(* The rest of the system keeps which descriptors are of boostpulse files.  *)
LEMMA EnvironmentInv ==
  ASSUME BoostInv,
         \/ \E on \in BOOLEAN : SetInteractive(on)
         \/ \E g \in Governors : ChangeGovernor(g)
         \/ OtherOpens \/ OtherCloses
  PROVE  BoostInv' /\ th' = th
  <1> USE DEF BoostInv
  <1>1. UNCHANGED <<cm, th>>
    BY DEF SetInteractive, ChangeGovernor, OtherOpens, OtherCloses
  <1>2. LockSection'
    BY <1>1 DEF LockSection
  <1>3. CASE \E on \in BOOLEAN : SetInteractive(on)
    <2>1. TypeOK'
      BY <1>3 DEF SetInteractive, TypeOK
    <2>2. OneBoostDescriptor'
      BY <1>3 DEF SetInteractive, OneBoostDescriptor
    <2> QED
      BY <1>1, <1>2, <2>1, <2>2
  <1>4. CASE \E g \in Governors : ChangeGovernor(g)
    <2>1. PICK g \in Governors : ChangeGovernor(g)
      BY <1>4
    <2>2. changes' \in 0 .. MaxChanges
      BY <2>1, PowerAssumption DEF ChangeGovernor, TypeOK
    <2>3. files' \in [Fds -> FileStates]
      BY <2>1 DEF ChangeGovernor, TypeOK, FileStates, BoostFiles
    <2>4. TypeOK'
      BY <2>1, <2>2, <2>3 DEF ChangeGovernor, TypeOK
    <2>5. \A f \in Fds : files'[f] \in BoostFiles <=> files[f] \in BoostFiles
      BY <2>1 DEF ChangeGovernor, BoostFiles
    <2>6. OneBoostDescriptor'
      BY <1>1, <2>5 DEF OneBoostDescriptor
    <2> QED
      BY <1>1, <1>2, <2>4, <2>6
  <1>5. CASE OtherOpens \/ OtherCloses
    <2>1. PICK f \in Fds, st \in {"free", "other"} :
            files[f] \in {"free", "other"} /\ files' = [files EXCEPT ![f] = st]
      BY <1>5 DEF OtherOpens, OtherCloses, Lowest, Free
    <2>2. /\ files' \in [Fds -> FileStates]
          /\ \A g \in Fds : files'[g] = IF g = f THEN st ELSE files[g]
      BY <2>1 DEF TypeOK, FileStates
    <2>3. TypeOK'
      BY <1>5, <2>2 DEF OtherOpens, OtherCloses, TypeOK
    <2>4. \A g \in Fds : files'[g] \in BoostFiles <=> files[g] \in BoostFiles
      BY <2>1, <2>2 DEF BoostFiles
    <2>5. OneBoostDescriptor'
      BY <1>1, <2>4 DEF OneBoostDescriptor
    <2> QED
      BY <1>1, <1>2, <2>3, <2>5
  <1> QED
    BY <1>3, <1>4, <1>5

-----------------------------------------------------------------------------
(* Every step keeps the invariant, and no step of a hint closes another     *)
(* component's file.                                                        *)
LEMMA NextInv ==
  ASSUME BoostInv, [Next]_vars
  PROVE  /\ BoostInv'
         /\ th' # th => \A f \in Fds : files[f] = "other" => files'[f] = "other"
  <1>1. CASE UNCHANGED vars
    BY <1>1 DEF vars, BoostInv, TypeOK, LockSection, OneBoostDescriptor
  <1>2. ASSUME NEW t \in Threads, PowerHint(t) \/ Advance(t)
        PROVE  /\ BoostInv'
               /\ \A f \in Fds : files[f] = "other" => files'[f] = "other"
    <2>1. CASE \/ PowerHint(t) \/ BoostpulseFound(t) \/ BoostpulseReturn(t)
               \/ LoadFd(t) \/ Write(t)
      BY <2>1, QuietSteps
    <2>2. CASE GetScalingGovernor(t)
      BY <2>2, GetScalingGovernorInv
    <2>3. CASE OpenBoostpulse(t)
      BY <2>3, OpenBoostpulseInv
    <2>4. CASE ConfigureGovernor(t)
      BY <2>4, ConfigureGovernorInv
    <2>5. CASE CloseBoostpulse(t)
      BY <2>5, CloseBoostpulseInv
    <2> QED
      BY <1>2, <2>1, <2>2, <2>3, <2>4, <2>5 DEF Advance
  <1>3. CASE \/ \E on \in BOOLEAN : SetInteractive(on)
             \/ \E g \in Governors : ChangeGovernor(g)
             \/ OtherOpens \/ OtherCloses
    BY <1>3, EnvironmentInv
  <1> QED
    BY <1>1, <1>2, <1>3 DEF Next

(* The HAL's own descriptor is the only one of a boostpulse file, whatever  *)
(* number of hints race with each other and with governor changes: none is  *)
(* leaked, and boostpulse_fd never is a number that was closed.             *)
THEOREM BoostDescriptorUnique == Spec => []OneBoostDescriptor
  <1>1. Init => BoostInv
    BY InitInv
  <1>2. BoostInv /\ [Next]_vars => BoostInv'
    BY NextInv
  <1>3. BoostInv => OneBoostDescriptor
    BY DEF BoostInv
  <1> QED
    BY <1>1, <1>2, <1>3, PTL DEF Spec

(* A failed hint closes the module's descriptor and never a file another    *)
(* component has opened under that number (cm_power_hint).                  *)
THEOREM HintsKeepOtherFiles == Spec => OtherFilesKept
  <1>1. Init => BoostInv
    BY InitInv
  <1>2. BoostInv /\ [Next]_vars => BoostInv'
    BY NextInv
  <1>3. BoostInv /\ [Next]_vars =>
          [th' # th => \A f \in Fds : files[f] = "other" => files'[f] = "other"]_vars
    BY NextInv
  <1> QED
    BY <1>1, <1>2, <1>3, PTL DEF Spec, OtherFilesKept

-----------------------------------------------------------------------------
(* The tunables. configure_governor needs a descriptor of its own for each   *)
(* file: the other components leave one, beside the boostpulse file's.       *)
LeavesRoom == MaxOther + 2 <= Cardinality(Fds)

Others == {f \in Fds : files[f] = "other"}

(* The module's descriptor is of a governor that runs.                       *)
Live == \E f \in Fds : f = cm.boostpulse_fd /\ files[f] = "live"

(* What is to be configured is the governor whose file was opened, unless    *)
(* the kernel has replaced it since.                                         *)
Configuring ==
  \A t \in Threads : th[t].pc = "configure" =>
    cm.governor \in Boostable /\ (Live => cm.governor = kernel)

TuneInv == Cardinality(Others) <= MaxOther /\ Configuring /\ BoostTuned

(* One more element makes a finite set larger by one at most.                *)
LEMMA AddsOne ==
  ASSUME NEW S, NEW x, IsFiniteSet(S)
  PROVE  /\ IsFiniteSet(S \cup {x})
         /\ Cardinality(S \cup {x}) \in Nat
         /\ Cardinality(S) \in Nat
         /\ Cardinality(S \cup {x}) <= Cardinality(S) + 1
  <1>1. Cardinality(S) \in Nat
    BY FS_CardinalityType
  <1>2. CASE x \in S
    <2>1. S \cup {x} = S
      BY <1>2
    <2>2. IsFiniteSet(S \cup {x}) /\ Cardinality(S \cup {x}) = Cardinality(S)
      BY <2>1, Zenon
    <2> QED
      BY <1>1, <2>2
  <1>3. CASE x \notin S
    <2>1. IsFiniteSet(S \cup {x})
      BY FS_AddElement
    <2>2. Cardinality(S \cup {x}) = IF x \in S THEN Cardinality(S) ELSE Cardinality(S) + 1
      BY FS_AddElement, Zenon
    <2> QED
      BY <1>1, <1>3, <2>1, <2>2
  <1> QED
    BY <1>2, <1>3

LEMMA SomeFree ==
  ASSUME LeavesRoom, BoostInv, Cardinality(Others) <= MaxOther
  PROVE  SysfsWorks
  <1> SUFFICES ASSUME ~SysfsWorks PROVE FALSE
    OBVIOUS
  <1>1. IsFiniteSet(Others) /\ Others \subseteq Fds
    BY PowerAssumption, FS_Subset DEF Others
  <1>2. Fds \subseteq Others \cup {cm.boostpulse_fd}
    BY DEF BoostInv, OneBoostDescriptor, TypeOK, FileStates, Others, SysfsWorks, Free
  <1>3. /\ IsFiniteSet(Others \cup {cm.boostpulse_fd})
        /\ Cardinality(Others \cup {cm.boostpulse_fd}) \in Nat
        /\ Cardinality(Others \cup {cm.boostpulse_fd}) <= Cardinality(Others) + 1
    BY <1>1, AddsOne
  <1>4. Cardinality(Fds) <= Cardinality(Others \cup {cm.boostpulse_fd})
    BY <1>2, <1>3, FS_Subset
  <1>5. Cardinality(Fds) \in Nat /\ Cardinality(Others) \in Nat /\ MaxOther \in Nat
    BY <1>1, PowerAssumption, FS_CardinalityType
  <1> QED
    BY <1>3, <1>4, <1>5 DEF LeavesRoom

LEMMA InitTune == Init => TuneInv
  <1> SUFFICES ASSUME Init PROVE TuneInv
    OBVIOUS
  <1>1. Others = {}
    BY DEF Init, Others
  <1>2. Cardinality(Others) <= MaxOther
    BY <1>1, FS_EmptySet, PowerAssumption
  <1>3. Configuring /\ BoostTuned
    BY DEF Init, Configuring, BoostTuned
  <1> QED
    BY <1>2, <1>3 DEF TuneInv

(* A step that leaves descriptors, governor and tunables alone, and brings   *)
(* nobody into configure_governor and nobody out of it.                      *)
LEMMA TuneSame ==
  ASSUME TuneInv, UNCHANGED <<kernel, tuned, files>>, cm'.boostpulse_fd = cm.boostpulse_fd,
         \A u \in Threads : th'[u].pc = "configure" <=> th[u].pc = "configure",
         cm'.governor = cm.governor \/ \A u \in Threads : th[u].pc # "configure"
  PROVE  TuneInv'
  <1>1. Others' = Others /\ (Live' <=> Live)
    BY DEF Others, Live
  <1>2. Configuring'
    BY <1>1 DEF TuneInv, Configuring
  <1>3. BoostTuned'
    BY DEF TuneInv, BoostTuned
  <1> QED
    BY <1>1, <1>2, <1>3 DEF TuneInv

LEMMA HintTune ==
  ASSUME LeavesRoom, BoostInv, TuneInv, NEW t \in Threads, PowerHint(t) \/ Advance(t)
  PROVE  TuneInv'
  <1>0. /\ cm \in [boostpulse_fd : Fds \cup {None}, governor : Governors]
        /\ th \in [Threads -> [pc : Pcs, fd : Fds \cup {None}]]
        /\ files \in [Fds -> FileStates] /\ None \notin Fds
    BY PowerAssumption DEF BoostInv, TypeOK
  <1>g. ASSUME NEW from, NEW to \in Pcs, Goto(t, from, to)
        PROVE  th[t].pc = from /\ \A u \in Threads : th'[u].pc = IF u = t THEN to ELSE th[u].pc
    BY <1>g, GotoType DEF BoostInv
  <1>1. CASE PowerHint(t)
    BY <1>1, <1>g, TuneSame DEF PowerHint, Pcs
  <1>2. CASE BoostpulseFound(t)
    BY <1>2, <1>g, TuneSame DEF BoostpulseFound, Pcs
  <1>3. CASE GetScalingGovernor(t)
    <2>1. \A u \in Threads : th[u].pc # "configure"
      BY <1>3 DEF GetScalingGovernor, LockFree
    <2>2. \A u \in Threads : th'[u].pc # "configure"
      <3>1. PICK to \in {"open", "return"} : Goto(t, "lock", to)
        BY <1>3 DEF GetScalingGovernor
      <3> QED
        BY <2>1, <3>1, <1>g DEF Pcs
    <2>3. cm'.boostpulse_fd = cm.boostpulse_fd /\ UNCHANGED <<kernel, tuned, files>>
      BY <1>0, <1>3 DEF GetScalingGovernor
    <2> QED
      BY <2>1, <2>2, <2>3, TuneSame
  <1>4. CASE OpenBoostpulse(t)
    <2>1. CASE Goto(t, "open", "return") /\ UNCHANGED <<files, cm>>
      BY <1>4, <2>1, <1>g, TuneSame DEF OpenBoostpulse, Pcs
    <2>2. CASE ~(Goto(t, "open", "return") /\ UNCHANGED <<files, cm>>)
      <3>1. PICK f \in Fds : /\ files[f] = "free"
                             /\ files' = [files EXCEPT ![f] = "live"]
                             /\ cm' = [cm EXCEPT !.boostpulse_fd = f]
        BY <1>4, <2>2 DEF OpenBoostpulse, Lowest, Free
      <3>2. /\ cm.governor \in Boostable /\ cm.governor = kernel
            /\ Goto(t, "open", "configure") /\ UNCHANGED <<kernel, tuned>>
        BY <1>4, <2>2 DEF OpenBoostpulse
      <3>3. th'[t].pc = "configure"
        BY <3>2, <1>g DEF Pcs
      <3>4. cm'.governor = cm.governor /\ cm'.governor \in Boostable /\ kernel' = cm'.governor
        BY <1>0, <3>1, <3>2
      <3>5. Others' = Others
        BY <1>0, <3>1 DEF Others
      <3>6. Configuring'
        BY <3>4 DEF Configuring
      <3>7. BoostTuned'
        BY <3>3 DEF BoostTuned
      <3> QED
        BY <3>5, <3>6, <3>7 DEF TuneInv
    <2> QED
      BY <2>1, <2>2
  <1>5. CASE ConfigureGovernor(t)
    <2>1. /\ th[t].pc = "configure" /\ UNCHANGED <<kernel, files, cm>>
          /\ \A u \in Threads : th'[u].pc = IF u = t THEN "return" ELSE th[u].pc
          /\ tuned' = (tuned \/ (SysfsWorks /\ cm.governor \in Boostable
                                  /\ cm.governor = kernel))
      BY <1>5, <1>g DEF ConfigureGovernor, Pcs
    <2>2. \A u \in Threads : th'[u].pc # "configure"
      BY <2>1 DEF BoostInv, LockSection
    <2>3. SysfsWorks /\ Others' = Others
      BY <2>1, SomeFree DEF TuneInv, Others
    <2>4. Live => tuned'
      BY <2>1, <2>3 DEF TuneInv, Configuring
    <2>5. Configuring'
      BY <2>2 DEF Configuring
    <2>6. BoostTuned'
      BY <2>1, <2>4 DEF BoostTuned, Live
    <2> QED
      BY <2>3, <2>5, <2>6 DEF TuneInv
  <1>6. CASE BoostpulseReturn(t)
    <2>1. PICK to \in {"idle", "load"} : Goto(t, "return", to)
      BY <1>6 DEF BoostpulseReturn
    <2> QED
      BY <1>6, <2>1, <1>g, TuneSame DEF BoostpulseReturn, Pcs
  <1>7. CASE LoadFd(t)
    <2>1. \A u \in Threads : th'[u].pc = IF u = t THEN "write" ELSE th[u].pc
      BY <1>0, <1>7 DEF LoadFd
    <2> QED
      BY <1>7, <2>1, TuneSame DEF LoadFd
  <1>8. CASE Write(t)
    <2>1. PICK res \in {"idle", "fail"} : th' = [th EXCEPT ![t] = [pc |-> res, fd |-> None]]
      BY <1>8 DEF Write, WriteResult
    <2>2. \A u \in Threads : th'[u].pc = IF u = t THEN res ELSE th[u].pc
      BY <1>0, <2>1
    <2> QED
      BY <1>8, <2>2, TuneSame DEF Write
  <1>9. CASE CloseBoostpulse(t)
    <2>1. /\ \A u \in Threads : th'[u].pc # "configure"
          /\ cm'.boostpulse_fd = None
          /\ files' = [f \in Fds |-> IF f = cm.boostpulse_fd THEN "free" ELSE files[f]]
      BY <1>0, <1>9, <1>g DEF CloseBoostpulse, LockFree, Pcs
    <2>2. \A f \in Fds : files[f] = "other" => files'[f] = "other"
      BY <1>9, CloseBoostpulseInv
    <2>3. Others' = Others
      BY <2>1, <2>2 DEF Others
    <2>4. Configuring' /\ BoostTuned'
      BY <1>0, <2>1 DEF Configuring, BoostTuned
    <2> QED
      BY <2>3, <2>4 DEF TuneInv
  <1> QED
    BY <1>1, <1>2, <1>3, <1>4, <1>5, <1>6, <1>7, <1>8, <1>9 DEF Advance

LEMMA EnvironmentTune ==
  ASSUME BoostInv, TuneInv,
         \/ \E on \in BOOLEAN : SetInteractive(on)
         \/ \E g \in Governors : ChangeGovernor(g)
         \/ OtherOpens \/ OtherCloses
  PROVE  TuneInv'
  <1>0. /\ files \in [Fds -> FileStates] /\ IsFiniteSet(Fds) /\ MaxOther \in Nat
        /\ IsFiniteSet(Others) /\ Cardinality(Others) \in Nat
    BY PowerAssumption, FS_Subset, FS_CardinalityType DEF BoostInv, TypeOK, Others
  <1>1. CASE \E on \in BOOLEAN : SetInteractive(on)
    BY <1>1, TuneSame DEF SetInteractive
  <1>2. CASE \E g \in Governors : ChangeGovernor(g)
    <2>1. /\ UNCHANGED <<cm, th>>
          /\ files' = [f \in Fds |-> IF files[f] = "live" THEN "stale" ELSE files[f]]
      BY <1>2 DEF ChangeGovernor
    <2>2. ~Live' /\ Others' = Others
      BY <1>0, <2>1 DEF Live, Others
    <2>3. Configuring' /\ BoostTuned'
      BY <2>1, <2>2 DEF TuneInv, Configuring, BoostTuned, Live
    <2> QED
      BY <2>2, <2>3 DEF TuneInv
  <1>3. CASE OtherOpens \/ OtherCloses
    <2>1. PICK f \in Fds, st \in {"free", "other"} :
            files[f] \in {"free", "other"} /\ files' = [files EXCEPT ![f] = st]
      BY <1>3 DEF OtherOpens, OtherCloses, Lowest, Free
    <2>2. UNCHANGED <<kernel, tuned, cm, th>>
      BY <1>3 DEF OtherOpens, OtherCloses
    <2>3. (Live' <=> Live) /\ Configuring' /\ BoostTuned'
      BY <1>0, <2>1, <2>2 DEF TuneInv, Live, Configuring, BoostTuned
    <2>4. CASE OtherOpens
      <3>1. PICK g \in Fds : Others' = Others \cup {g}
        BY <1>0, <2>4 DEF OtherOpens, Others, Lowest, Free
      <3>2. Cardinality(Others) < MaxOther
        BY <2>4 DEF OtherOpens, Others
      <3>3. Cardinality(Others \cup {g}) <= Cardinality(Others) + 1
        BY <1>0, AddsOne
      <3>4. Cardinality(Others \cup {g}) \in Nat
        BY <1>0, AddsOne
      <3> QED
        BY <1>0, <2>3, <3>1, <3>2, <3>3, <3>4 DEF TuneInv
    <2>5. CASE OtherCloses
      <3>1. Others' \subseteq Others
        BY <1>0, <2>5 DEF OtherCloses, Others
      <3>2. Cardinality(Others') <= Cardinality(Others) /\ Cardinality(Others') \in Nat
        BY <1>0, <3>1, FS_Subset, FS_CardinalityType
      <3> QED
        BY <1>0, <2>3, <3>2 DEF TuneInv
    <2> QED
      BY <1>3, <2>4, <2>5
  <1> QED
    BY <1>1, <1>2, <1>3

(* For any hints, governors and descriptors, of which the other components   *)
(* leave two: if a hint can reach the governor that runs, that governor has  *)
(* the HAL's tunables or the hint that opened its file is writing them.      *)
THEOREM BoostIsTuned == ASSUME LeavesRoom PROVE Spec => []BoostTuned
  <1>1. Init => BoostInv /\ TuneInv
    BY InitInv, InitTune
  <1>2. BoostInv /\ TuneInv /\ [Next]_vars => BoostInv' /\ TuneInv'
    <2>1. BoostInv /\ TuneInv /\ UNCHANGED vars => TuneInv'
      BY TuneSame DEF vars
    <2> QED
      BY <2>1, NextInv, HintTune, EnvironmentTune DEF Next
  <1>3. TuneInv => BoostTuned
    BY DEF TuneInv
  <1> QED
    BY <1>1, <1>2, <1>3, PTL DEF Spec

=============================================================================
