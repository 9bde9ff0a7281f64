----------------------------- MODULE JpegEncoder -----------------------------
(* encodeImage of src/libcamera/JpegEncoder.c, with which the picture       *)
(* thread has the front camera's pictures compressed, and the OMX component *)
(* that does it in a thread of its own. The component's callbacks write to  *)
(* pipes the caller selects on, and post a semaphore it waits for.          *)
EXTENDS Naturals

CONSTANTS
  Faults,     \* what may go wrong: see FaultKinds
  MaxFaults,  \* how often, at most
  MaxEncodes  \* how many pictures

(* A call for setting the component up fails; the component fails for good; *)
(* it is preempted, which forces it to Idle, or it is so before the caller  *)
(* has seen it Executing; it reports that a port has no buffers, or another *)
(* error, and goes on.                                                      *)
FaultKinds == {"setup", "fatal", "preempted", "preempted early", "unpopulated", "other"}

ASSUME EncoderAssumption ==
  /\ Faults \subseteq FaultKinds
  /\ MaxFaults \in Nat /\ MaxEncodes \in Nat

VARIABLES
  flags,   \* the globals DEINIT_FLAG, bPreempted and bError
  enc,     \* the caller: where it is, its variables, and the semaphore
  pipe,    \* what lies in Event_Pipe, IpBuf_Pipe and OpBuf_Pipe
  comp,    \* the component
  count    \* the pictures begun, and the faults

vars == <<flags, enc, pipe, comp, count>>

Pcs == {"idle", "setup", "waitIdle", "config", "waitExecuting", "fill", "top",
        "waitPreempted", "select", "event", "waitInvalid", "input", "output",
        "deinit", "waitStopped", "exit", "free", "crashed"}
States == {"loaded", "idle", "executing", "invalid"}

(* size is FALSE while fileSize has no value, and output says what the last *)
(* picture's was; clean whether the globals were as the program starts.     *)
Callers == [pc : Pcs, semaphore : 0 .. 2 + MaxFaults, ready : SUBSET {"event", "input", "output"},
            failed : BOOLEAN, size : BOOLEAN, fault : BOOLEAN, clean : BOOLEAN,
            fresh : BOOLEAN]
Components == [state : States, command : {"none", "idle", "executing"},
               input : {"none", "new", "used"}, data : BOOLEAN, output : BOOLEAN]

TypeOK ==
  /\ flags \in [DEINIT_FLAG : BOOLEAN, bPreempted : BOOLEAN, bError : BOOLEAN]
  /\ enc \in Callers /\ comp \in Components
  /\ pipe \in [event : BOOLEAN, input : BOOLEAN, output : {"none", "image", "empty"}]
  /\ count \in [encodes : 0 .. MaxEncodes, faults : 0 .. MaxFaults]

EmptyPipes == [event |-> FALSE, input |-> FALSE, output |-> "none"]
Loaded == [state |-> "loaded", command |-> "none", input |-> "none", data |-> FALSE,
           output |-> FALSE]

Init ==
  /\ flags = [DEINIT_FLAG |-> FALSE, bPreempted |-> FALSE, bError |-> FALSE]
  /\ enc = [pc |-> "idle", semaphore |-> 0, ready |-> {}, failed |-> FALSE,
            size |-> FALSE, fault |-> FALSE, clean |-> TRUE, fresh |-> TRUE]
  /\ pipe = EmptyPipes
  /\ comp = Loaded
  /\ count = [encodes |-> 0, faults |-> 0]

-----------------------------------------------------------------------------
(* The component. It has its handle until the caller frees it.              *)

HasHandle == enc.pc \notin {"idle", "setup", "crashed"}

(* sem_post; once the caller is on its way out there is no semaphore.       *)
Posted == IF enc.pc = "free" THEN [enc EXCEPT !.pc = "crashed"]
          ELSE [enc EXCEPT !.semaphore = @ + 1]

(* EmptyBufferDone, after or before the data has been encoded.              *)
EmptyBufferDone ==
  /\ HasHandle /\ comp.state = "executing" /\ comp.input # "none"
  /\ pipe' = [pipe EXCEPT !.input = TRUE]
  /\ comp' = [comp EXCEPT !.input = "none",
                          !.data = @ \/ (comp.input = "new" /\ comp.command = "none")]
  /\ UNCHANGED <<flags, enc, count>>

(* FillBufferDone, with an image ...                                        *)
FillBufferDone ==
  /\ HasHandle /\ comp.state = "executing" /\ comp.command = "none" /\ comp.output
  /\ comp.data \/ comp.input = "new"
  /\ pipe' = [pipe EXCEPT !.output = "image"]
  /\ comp' = [comp EXCEPT !.output = FALSE, !.data = FALSE,
                          !.input = IF comp.data THEN @ ELSE "used"]
  /\ UNCHANGED <<flags, enc, count>>

(* ... or with what there is, when the component leaves Executing.          *)
ReturnOutput ==
  /\ HasHandle /\ comp.state = "executing" /\ comp.command = "idle" /\ comp.output
  /\ pipe' = [pipe EXCEPT !.output = "empty"]
  /\ comp' = [comp EXCEPT !.output = FALSE, !.data = FALSE]
  /\ UNCHANGED <<flags, enc, count>>

(* A change of state is completed when all buffers are back:                *)
(* OMX_EventCmdComplete.                                                    *)
CmdComplete ==
  /\ HasHandle /\ comp.command # "none" /\ comp.state # "invalid"
  /\ comp.command = "idle" => comp.input = "none" /\ ~comp.output
  /\ comp' = [comp EXCEPT !.state = comp.command, !.command = "none"]
  /\ enc' = Posted
  /\ UNCHANGED <<flags, pipe, count>>

Fault(kind) ==
  /\ kind \in Faults /\ count.faults < MaxFaults
  /\ count' = [count EXCEPT !.faults = @ + 1]

(* OMX_EventError: hardware, invalid state or a corrupt stream. The caller  *)
(* is told once.                                                            *)
ErrorFatal ==
  /\ HasHandle /\ comp.state # "invalid" /\ Fault("fatal")
  /\ comp' = [comp EXCEPT !.state = "invalid", !.command = "none"]
  /\ pipe' = [pipe EXCEPT !.event = @ \/ ~flags.bError]
  /\ flags' = [flags EXCEPT !.bError = TRUE]
  /\ enc' = [Posted EXCEPT !.fault = TRUE]

ErrorPreempted ==
  /\ HasHandle /\ comp.state = "executing" /\ comp.command = "none"
  /\ Fault(IF enc.pc = "waitExecuting" THEN "preempted early" ELSE "preempted")
  /\ flags' = [flags EXCEPT !.bPreempted = TRUE]
  /\ comp' = [comp EXCEPT !.command = "idle"]
  /\ enc' = [Posted EXCEPT !.fault = TRUE]
  /\ UNCHANGED pipe

(* OMX_ErrorPortUnpopulated, or any other.                                  *)
ErrorReported ==
  /\ HasHandle /\ comp.state # "invalid"
  /\ \E kind \in {"unpopulated", "other"} :
       /\ Fault(kind)
       /\ flags' = [flags EXCEPT !.bError = TRUE, !.DEINIT_FLAG = @ \/ kind = "other"]
  /\ enc' = [Posted EXCEPT !.fault = TRUE]
  /\ UNCHANGED <<pipe, comp>>

(* OMX_EventResourcesAcquired; it comes, if it does, when the caller knows  *)
(* that they were gone.                                                     *)
ResourcesAcquired ==
  /\ enc.pc \in {"exit", "free"} /\ comp.state = "idle" /\ flags.bPreempted
  /\ flags' = [flags EXCEPT !.bPreempted = FALSE]
  /\ UNCHANGED <<enc, pipe, comp, count>>

-----------------------------------------------------------------------------
(* The caller.                                                              *)

Go(pc) == enc' = [enc EXCEPT !.pc = pc]
Exit == [enc EXCEPT !.pc = "exit", !.failed = TRUE]

(* The semaphore and the pipes are new; the flags are not.                  *)
Encode ==
  /\ enc.pc = "idle" /\ count.encodes < MaxEncodes
  /\ enc' = [pc |-> "setup", semaphore |-> 0, ready |-> {}, failed |-> FALSE,
             size |-> FALSE, fault |-> FALSE,
             clean |-> ~flags.bPreempted /\ ~flags.bError, fresh |-> ~flags.DEINIT_FLAG]
  /\ pipe' = EmptyPipes /\ comp' = Loaded
  /\ count' = [count EXCEPT !.encodes = @ + 1]
  /\ UNCHANGED flags

(* Handle, pipes, parameters, OMX_StateIdle and the buffers; or one of them *)
(* fails.                                                                   *)
Setup ==
  /\ enc.pc = "setup"
  /\ \/ Go("waitIdle") /\ comp' = [comp EXCEPT !.command = "idle"] /\ UNCHANGED count
     \/ Fault("setup") /\ enc' = [Exit EXCEPT !.fault = TRUE] /\ UNCHANGED comp
  /\ UNCHANGED <<flags, pipe>>

(* Mutant. An invalid component is waited for like any other.               *)
WaitForStateOnly(desired, next) ==
  /\ enc.semaphore > 0
  /\ enc' = [enc EXCEPT !.semaphore = @ - 1,
                        !.pc = IF comp.state = desired THEN next ELSE @]
  /\ UNCHANGED <<flags, pipe, comp, count>>

(* Mutant. The state is looked at and the post is left for the next wait.   *)
WaitForStateUnposted(desired, next) ==
  /\ enc.semaphore > 0
  /\ enc' = IF comp.state = desired THEN [enc EXCEPT !.pc = next]
            ELSE IF comp.state = "invalid" THEN Exit
            ELSE enc
  /\ UNCHANGED <<flags, pipe, comp, count>>

(* WaitForState: a post, then a look at the state, until it is the desired  *)
(* one or invalid.                                                          *)
WaitForState(desired, next) ==
  /\ enc.semaphore > 0
  /\ LET taken == [enc EXCEPT !.semaphore = @ - 1] IN
     enc' = IF comp.state = desired THEN [taken EXCEPT !.pc = next]
            ELSE IF comp.state = "invalid" THEN [taken EXCEPT !.pc = "exit", !.failed = TRUE]
            ELSE taken
  /\ UNCHANGED <<flags, pipe, comp, count>>

WaitIdle == enc.pc = "waitIdle" /\ WaitForState("idle", "config")

(* The quality, and OMX_StateExecuting.                                     *)
Config ==
  /\ enc.pc = "config"
  /\ IF comp.state = "invalid" THEN enc' = Exit /\ UNCHANGED comp
     ELSE Go("waitExecuting") /\ comp' = [comp EXCEPT !.command = "executing"]
  /\ UNCHANGED <<flags, pipe, count>>

WaitExecuting == enc.pc = "waitExecuting" /\ WaitForState("executing", "fill")

(* GetState, and both buffers go to the component. One that is Idle again   *)
(* has been preempted: the loop is not entered.                             *)
Fill ==
  /\ enc.pc = "fill"
  /\ comp' = IF comp.state = "executing" /\ comp.command = "none"
             THEN [comp EXCEPT !.input = "new", !.output = TRUE] ELSE comp
  /\ Go(IF comp.state = "idle" THEN "exit" ELSE "top")
  /\ UNCHANGED <<flags, pipe, count>>

Top ==
  /\ enc.pc = "top"
  /\ Go(IF flags.bPreempted THEN "waitPreempted" ELSE "select")
  /\ UNCHANGED <<flags, pipe, comp, count>>

WaitPreempted == enc.pc = "waitPreempted" /\ WaitForState("idle", "exit")

(* pselect without a timeout.                                               *)
Select ==
  /\ enc.pc = "select"
  /\ pipe # EmptyPipes
  /\ enc' = [enc EXCEPT !.pc = "event",
               !.ready = {p \in {"event", "input"} : pipe[p]}
                         \cup {p \in {"output"} : pipe[p] # "none"}]
  /\ UNCHANGED <<flags, pipe, comp, count>>

Event ==
  /\ enc.pc = "event"
  /\ IF "event" \in enc.ready
       THEN /\ pipe' = [pipe EXCEPT !.event = FALSE]
            /\ Go(IF flags.bError THEN "waitInvalid" ELSE "input")
       ELSE Go("input") /\ UNCHANGED pipe
  /\ UNCHANGED <<flags, comp, count>>

(* There is no error then.                                                  *)
WaitInvalid == enc.pc = "waitInvalid" /\ WaitForState("invalid", "exit")

(* Mutant. The last input ends the encoding, not the output.                *)
InputEnds ==
  /\ enc.pc = "input"
  /\ IF "input" \in enc.ready /\ ~flags.DEINIT_FLAG
       THEN pipe' = [pipe EXCEPT !.input = FALSE]
            /\ flags' = [flags EXCEPT !.DEINIT_FLAG = TRUE]
       ELSE UNCHANGED <<pipe, flags>>
  /\ Go("output")
  /\ UNCHANGED <<comp, count>>

(* The image is sent again and again until there is an output.              *)
Input ==
  /\ enc.pc = "input"
  /\ IF "input" \in enc.ready /\ ~flags.DEINIT_FLAG
       THEN /\ pipe' = [pipe EXCEPT !.input = FALSE]
            /\ comp' = IF comp.state = "executing" /\ comp.command = "none"
                       THEN [comp EXCEPT !.input = "new"] ELSE comp
       ELSE UNCHANGED <<pipe, comp>>
  /\ Go("output")
  /\ UNCHANGED <<flags, count>>

(* One output is enough.                                                    *)
Output ==
  /\ enc.pc = "output"
  /\ IF "output" \in enc.ready
       THEN /\ enc' = [enc EXCEPT !.pc = "deinit", !.size = pipe.output = "image"]
            /\ pipe' = [pipe EXCEPT !.output = "none"]
            /\ flags' = [flags EXCEPT !.DEINIT_FLAG = TRUE]
       ELSE Go("deinit") /\ UNCHANGED <<pipe, flags>>
  /\ UNCHANGED <<comp, count>>

(* OMX_StateIdle, which is an error for a component that is or goes there.  *)
Deinit ==
  /\ enc.pc = "deinit"
  /\ IF ~flags.DEINIT_FLAG THEN Go("top") /\ UNCHANGED comp
     ELSE IF comp.state # "executing" \/ comp.command = "idle"
       THEN enc' = Exit /\ UNCHANGED comp
       ELSE Go("waitStopped") /\ comp' = [comp EXCEPT !.command = "idle"]
  /\ UNCHANGED <<flags, pipe, count>>

(* Then OMX_CommandPortDisable, which does not complete while the port has  *)
(* its buffer.                                                              *)
WaitStopped == enc.pc = "waitStopped" /\ WaitForState("idle", "exit")

(* EXIT: the semaphore is gone first, and after a failure the buffers,      *)
(* whose pointers have no value yet if it was before they were allocated;   *)
(* ...                                                                      *)
Cleanup ==
  /\ enc.pc = "exit"
  /\ \/ Go("free")
     \/ enc.failed /\ comp.state = "loaded" /\ comp.command = "none" /\ Go("crashed")
  /\ UNCHANGED <<flags, pipe, comp, count>>

(* ... then the handle.                                                     *)
FreeHandle ==
  /\ enc.pc = "free"
  /\ Go("idle")
  /\ UNCHANGED <<flags, pipe, comp, count>>

-----------------------------------------------------------------------------
CallerStep ==
  \/ Setup \/ WaitIdle \/ Config \/ WaitExecuting \/ Fill \/ Top \/ WaitPreempted
  \/ Select \/ Event \/ WaitInvalid \/ Input \/ Output \/ Deinit \/ WaitStopped
  \/ Cleanup \/ FreeHandle

ComponentStep == EmptyBufferDone \/ FillBufferDone \/ ReturnOutput \/ CmdComplete

Next ==
  \/ Encode \/ CallerStep \/ ComponentStep
  \/ ErrorFatal \/ ErrorPreempted \/ ErrorReported \/ ResourcesAcquired

Spec == Init /\ [][Next]_vars

(* The caller goes on when it can; the component does what it was told, and *)
(* does not put off the output for ever for the sake of more input.         *)
FairSpec ==
  /\ Spec
  /\ WF_vars(CallerStep)
  /\ WF_vars(EmptyBufferDone) /\ SF_vars(FillBufferDone)
  /\ WF_vars(ReturnOutput) /\ WF_vars(CmdComplete)

-----------------------------------------------------------------------------
(* Properties.                                                              *)

(* encodeImage returns, whatever the component reports and when, unless an  *)
(* earlier picture left bError set, which no code resets, or bPreempted.    *)
EncodeReturns ==
  enc.pc \notin {"idle", "crashed"} /\ enc.clean ~> enc.pc \in {"idle", "crashed"}

(* The size encodeImage returns is that of the image the component made, if *)
(* nothing failed, in the first picture: DEINIT_FLAG stays set for the next *)
(* ones, which give up when they see the first buffer come back.            *)
SizeIsDelivered == enc.pc = "exit" /\ enc.fresh /\ ~enc.fault => enc.size

=============================================================================
