-------------------------- MODULE JpegEncoder_proofs --------------------------
(* Theorems about JpegEncoder for any number of pictures and faults: how     *)
(* many posts may lie in the semaphore, and the size of an undisturbed       *)
(* picture.                                                                  *)
EXTENDS JpegEncoder, TLAPS

-----------------------------------------------------------------------------
(* The posts. Every command and every fault posts once; the caller takes one *)
(* for every command of its own before it goes on, so that those of faults,  *)
(* and that of an Idle forced by one, are what can be left over.             *)

Due == IF comp.command = "none" THEN 0 ELSE 1

Pending(n) == enc.semaphore + Due <= n + count.faults

Is(state, command) == comp.state = state /\ comp.command = command

Executing == Is("executing", "none")

Running == {"fill", "top", "waitPreempted", "select", "event", "waitInvalid", "input",
            "output", "deinit"}

(* What the component may be at, from place to place, and how many posts     *)
(* beside those of the faults there may be or come.                          *)
Posts ==
  /\ Pending(2)
  /\ enc.pc = "setup" => Is("loaded", "none") /\ enc.semaphore = 0
  /\ enc.pc = "waitIdle" =>
       Pending(1) /\ (Is("loaded", "idle") \/ Is("idle", "none") \/ Is("invalid", "none"))
  /\ enc.pc = "config" => Pending(0) /\ (Is("idle", "none") \/ Is("invalid", "none"))
  /\ enc.pc = "waitExecuting" =>
       /\ comp.state \in {"idle", "executing", "invalid"}
       /\ comp.state # "idle" => comp.command # "executing"
       /\ comp.state # "executing" => comp.command # "idle"
       /\ comp.state = "invalid" => comp.command = "none"
       /\ Executing \/ Is("idle", "executing") => Pending(1)
  /\ enc.pc \in Running =>
       /\ Executing \/ Is("executing", "idle") \/ Is("idle", "none") \/ Is("invalid", "none")
       /\ Pending(1) /\ (Executing => Pending(0))
  /\ enc.pc = "waitStopped" =>
       Pending(1) /\ (Is("executing", "idle") \/ Is("idle", "none") \/ Is("invalid", "none"))
  /\ enc.pc \in {"exit", "free"} => ~Executing /\ comp.command # "executing"

Inv == TypeOK /\ Posts

(* A wait takes a post, and goes on when the state is the desired one.       *)
LEMMA WaitTypes ==
  ASSUME Inv, NEW desired, NEW next \in Pcs, WaitForState(desired, next)
  PROVE  TypeOK'
  <1> USE DEF TypeOK, Callers
  <1>1. enc.semaphore - 1 \in 0 .. 2 + MaxFaults
    BY EncoderAssumption DEF WaitForState, Inv
  <1> QED
    BY <1>1 DEF WaitForState, Inv, Exit, Pcs

(* Where the caller goes, and what it tells the component.                   *)
LEMMA GoTypes ==
  ASSUME TypeOK
  PROVE  /\ \A pc \in Pcs : [enc EXCEPT !.pc = pc] \in Callers
         /\ Exit \in Callers /\ [Exit EXCEPT !.fault = TRUE] \in Callers
         /\ \A c \in {"none", "idle", "executing"} : [comp EXCEPT !.command = c] \in Components
  <1> USE DEF TypeOK
  <1>1. "exit" \in Pcs
    BY DEF Pcs
  <1>2. \A pc \in Pcs : [enc EXCEPT !.pc = pc] \in Callers
    BY DEF Callers
  <1>3. Exit \in Callers
    BY <1>1 DEF Callers, Exit
  <1>4. [Exit EXCEPT !.fault = TRUE] \in Callers
    BY <1>3 DEF Callers
  <1>5. \A c \in {"none", "idle", "executing"} : [comp EXCEPT !.command = c] \in Components
    BY DEF Components
  <1> QED
    BY <1>2, <1>3, <1>4, <1>5

(* What a post does to the caller.                                           *)
LEMMA PostedTypes ==
  ASSUME TypeOK
  PROVE  /\ DOMAIN Posted = DOMAIN enc
         /\ enc.pc # "free" => Posted = [enc EXCEPT !.semaphore = @ + 1]
         /\ enc.pc = "free" => Posted = [enc EXCEPT !.pc = "crashed"]
  BY DEF Posted, TypeOK, Callers

(* The component's steps.                                                    *)
LEMMA ComponentInv ==
  ASSUME Inv, ComponentStep \/ ErrorFatal \/ ErrorPreempted \/ ErrorReported
  PROVE  Inv'
  <1> USE DEF Inv
  <1>0. enc.semaphore \in Nat /\ count.faults \in Nat /\ count.faults <= MaxFaults
    BY EncoderAssumption DEF TypeOK, Callers
  <1>1. CASE EmptyBufferDone \/ FillBufferDone \/ ReturnOutput
    <2>1. TypeOK'
      <3>1. PICK i \in {"none", "new", "used"}, d \in BOOLEAN, o \in BOOLEAN :
              comp' = [comp EXCEPT !.input = i, !.data = d, !.output = o]
        <4>1. CASE EmptyBufferDone
          <5>1. PICK d \in BOOLEAN : comp' = [comp EXCEPT !.input = "none", !.data = d]
            BY <4>1 DEF EmptyBufferDone, TypeOK, Components
          <5>2. comp' = [comp EXCEPT !.input = "none", !.data = d, !.output = comp.output]
            BY <5>1 DEF TypeOK, Components
          <5> QED
            BY <5>2 DEF TypeOK, Components
        <4>2. CASE FillBufferDone
          BY <4>2 DEF FillBufferDone, TypeOK, Components
        <4>3. CASE ReturnOutput
          BY <4>3 DEF ReturnOutput, TypeOK, Components
        <4> QED
          BY <1>1, <4>1, <4>2, <4>3
      <3>2. comp' \in Components
        BY <3>1 DEF TypeOK, Components
      <3>3. pipe' \in [event : BOOLEAN, input : BOOLEAN, output : {"none", "image", "empty"}]
        BY <1>1 DEF EmptyBufferDone, FillBufferDone, ReturnOutput, TypeOK
      <3> QED
        BY <1>1, <3>2, <3>3 DEF EmptyBufferDone, FillBufferDone, ReturnOutput, TypeOK
    <2>2. /\ UNCHANGED <<enc, count>>
          /\ comp'.state = comp.state /\ comp'.command = comp.command
      BY <1>1 DEF EmptyBufferDone, FillBufferDone, ReturnOutput, TypeOK, Components
    <2> QED
      BY <2>1, <2>2 DEF Posts, Pending, Due, Is, Executing
  <1>2. CASE CmdComplete
    <2>1. /\ comp' = [comp EXCEPT !.state = comp.command, !.command = "none"]
          /\ comp.command \in {"idle", "executing"}
          /\ UNCHANGED <<flags, pipe, count>> /\ enc' = Posted
      BY <1>2 DEF CmdComplete, TypeOK, Components
    <2>2. /\ comp'.state = comp.command /\ comp'.command = "none" /\ comp' \in Components
      BY <2>1 DEF TypeOK, Components, States
    <2>3. CASE enc.pc = "free"
      <3>1. enc' = [enc EXCEPT !.pc = "crashed"]
        BY <2>1, <2>3 DEF Posted
      <3>2. enc' \in Callers /\ enc'.pc = "crashed" /\ enc'.semaphore = enc.semaphore
        BY <3>1 DEF TypeOK, Callers, Pcs
      <3> QED
        BY <1>0, <2>1, <2>2, <3>2 DEF TypeOK, Posts, Pending, Due, Is, Executing, Running
    <2>4. CASE enc.pc # "free"
      <3>1. enc' = [enc EXCEPT !.semaphore = @ + 1]
        BY <2>1, <2>4 DEF Posted
      <3>2. enc.semaphore + 1 \in 0 .. 2 + MaxFaults
        BY <1>0, <2>1, EncoderAssumption DEF Posts, Pending, Due
      <3>3. /\ enc' \in Callers /\ enc'.pc = enc.pc /\ enc'.semaphore = enc.semaphore + 1
        BY <3>1, <3>2 DEF TypeOK, Callers
      <3>4. TypeOK'
        BY <2>1, <2>2, <3>3 DEF TypeOK
      <3>5. Posts'
        BY <1>0, <1>2, <2>1, <2>2, <3>3
           DEF Posts, Pending, Due, Is, Executing, Running, CmdComplete, HasHandle
      <3> QED
        BY <3>4, <3>5
    <2> QED
      BY <2>3, <2>4
  <1>3. CASE ErrorFatal \/ ErrorPreempted \/ ErrorReported
    <2>1. /\ count' = [count EXCEPT !.faults = @ + 1] /\ count.faults < MaxFaults
          /\ enc' = [Posted EXCEPT !.fault = TRUE]
      BY <1>3 DEF ErrorFatal, ErrorPreempted, ErrorReported, Fault
    <2>2. /\ count' \in [encodes : 0 .. MaxEncodes, faults : 0 .. MaxFaults]
          /\ count'.faults = count.faults + 1
      BY <1>0, <2>1, EncoderAssumption DEF TypeOK
    <2>3. /\ comp' \in Components /\ flags' \in [DEINIT_FLAG : BOOLEAN, bPreempted : BOOLEAN, bError : BOOLEAN]
          /\ pipe' \in [event : BOOLEAN, input : BOOLEAN, output : {"none", "image", "empty"}]
      BY <1>3 DEF ErrorFatal, ErrorPreempted, ErrorReported, TypeOK, Components, States
    <2>4. \/ comp'.state = "invalid" /\ comp'.command = "none"
          \/ Executing /\ comp'.state = "executing" /\ comp'.command = "idle"
          \/ comp' = comp
      BY <1>3 DEF ErrorFatal, ErrorPreempted, ErrorReported, TypeOK, Components, Is, Executing
    <2>5. CASE enc.pc = "free"
      <3>1. enc' = [enc EXCEPT !.pc = "crashed", !.fault = TRUE]
        BY <2>1, <2>5 DEF Posted, TypeOK, Callers
      <3>2. enc' \in Callers /\ enc'.pc = "crashed" /\ enc'.semaphore = enc.semaphore
        BY <3>1 DEF TypeOK, Callers, Pcs
      <3> QED
        BY <1>0, <2>2, <2>3, <2>4, <2>5, <3>2 DEF TypeOK, Posts, Pending, Due, Is, Executing, Running
    <2>6. CASE enc.pc # "free"
      <3>1. enc' = [enc EXCEPT !.semaphore = @ + 1, !.fault = TRUE]
        BY <2>1, <2>6 DEF Posted, TypeOK, Callers
      <3>2. enc'.pc = enc.pc /\ enc'.semaphore = enc.semaphore + 1
        BY <3>1 DEF TypeOK, Callers
      <3>3. Posts'
        <4>1. enc.pc \notin {"idle", "setup", "crashed"}
          BY <1>3 DEF ErrorFatal, ErrorPreempted, ErrorReported, HasHandle
        <4>2. CASE comp'.state = "invalid" /\ comp'.command = "none"
          BY <1>0, <2>2, <3>2, <4>1, <4>2 DEF Posts, Pending, Due, Is, Executing, Running
        <4>3. CASE Executing /\ comp'.state = "executing" /\ comp'.command = "idle"
          BY <1>0, <2>2, <2>6, <3>2, <4>1, <4>3
             DEF TypeOK, Callers, Pcs, Posts, Pending, Due, Is, Executing, Running
        <4>4. CASE comp' = comp
          BY <1>0, <2>2, <3>2, <4>1, <4>4 DEF Posts, Pending, Due, Is, Executing, Running
        <4> QED
          BY <2>4, <4>2, <4>3, <4>4
      <3>4. enc.semaphore + 1 \in 0 .. 2 + MaxFaults
        BY <1>0, <2>1, <2>2, <3>2, <3>3, EncoderAssumption DEF Posts, Pending, Due
      <3>5. enc' \in Callers
        BY <3>1, <3>4 DEF TypeOK, Callers
      <3> QED
        BY <2>2, <2>3, <3>3, <3>5 DEF TypeOK
    <2> QED
      BY <2>5, <2>6
  <1> QED
    BY <1>1, <1>2, <1>3 DEF ComponentStep

(* The caller's steps that leave the component alone, or tell it something.  *)
LEMMA CallerInv ==
  ASSUME Inv, Encode \/ CallerStep \/ ResourcesAcquired
  PROVE  Inv'
  <1> USE DEF Inv
  <1>0. /\ enc.semaphore \in Nat /\ count.faults \in Nat /\ count.faults <= MaxFaults
        /\ comp.command \in {"none", "idle", "executing"}
    BY EncoderAssumption DEF TypeOK, Callers, Components
  <1>1. CASE WaitIdle \/ WaitExecuting \/ WaitPreempted \/ WaitInvalid \/ WaitStopped
    <2>1. PICK desired \in States, next \in Pcs : WaitForState(desired, next)
      BY <1>1 DEF WaitIdle, WaitExecuting, WaitPreempted, WaitInvalid, WaitStopped, States, Pcs
    <2>2. TypeOK'
      BY <2>1, WaitTypes
    <2>3. /\ enc.semaphore > 0 /\ enc'.semaphore = enc.semaphore - 1
          /\ UNCHANGED <<comp, count>>
      BY <2>1 DEF WaitForState, TypeOK, Callers, Exit
    <2>4. ASSUME enc'.pc = enc.pc PROVE Posts'
      BY <1>0, <2>3, <2>4 DEF Posts, Pending, Due, Is, Executing
    <2>5. ASSUME comp.state = "invalid" /\ enc'.pc = "exit" PROVE Posts'
      BY <1>0, <1>1, <2>3, <2>5
         DEF Posts, Pending, Due, Is, Executing, Running, WaitIdle, WaitExecuting,
             WaitPreempted, WaitInvalid, WaitStopped
    <2>6. ASSUME WaitIdle /\ comp.state = "idle" /\ enc'.pc = "config" PROVE Posts'
      BY <1>0, <2>3, <2>6 DEF Posts, Pending, Due, Is, Executing, Running, WaitIdle
    <2>7. ASSUME WaitExecuting /\ comp.state = "executing" /\ enc'.pc = "fill" PROVE Posts'
      BY <1>0, <2>3, <2>7 DEF Posts, Pending, Due, Is, Executing, Running, WaitExecuting
    <2>8. ASSUME (WaitPreempted \/ WaitStopped) /\ comp.state = "idle" /\ enc'.pc = "exit" PROVE Posts'
      BY <1>0, <2>3, <2>8
         DEF Posts, Pending, Due, Is, Executing, Running, WaitPreempted, WaitStopped
    <2>9. \/ enc'.pc = enc.pc
          \/ comp.state = "invalid" /\ enc'.pc = "exit"
          \/ WaitIdle /\ comp.state = "idle" /\ enc'.pc = "config"
          \/ WaitExecuting /\ comp.state = "executing" /\ enc'.pc = "fill"
          \/ (WaitPreempted \/ WaitStopped) /\ comp.state = "idle" /\ enc'.pc = "exit"
      BY <1>1 DEF WaitIdle, WaitExecuting, WaitPreempted, WaitInvalid, WaitStopped,
                  WaitForState, Exit, TypeOK, Callers
    <2> QED
      BY <2>2, <2>4, <2>5, <2>6, <2>7, <2>8, <2>9
  <1>2. CASE Encode
    <2>1. TypeOK'
      BY <1>2, EncoderAssumption
         DEF Encode, TypeOK, Callers, Components, States, Pcs, Loaded, EmptyPipes
    <2>2. Posts'
      BY <1>0, <1>2 DEF Encode, TypeOK, Posts, Pending, Due, Is, Executing, Running, Loaded
    <2> QED
      BY <2>1, <2>2
  <1>3. CASE Setup
    <2>1. TypeOK'
      <3>1. enc' \in Callers /\ comp' \in Components
        BY <1>3, GoTypes DEF Setup, Go, TypeOK, Pcs
      <3>2. count' \in [encodes : 0 .. MaxEncodes, faults : 0 .. MaxFaults]
        BY <1>0, <1>3, EncoderAssumption DEF Setup, Fault, TypeOK
      <3> QED
        BY <1>3, <3>1, <3>2 DEF Setup, TypeOK
    <2>2. /\ enc'.semaphore = enc.semaphore /\ count'.faults \in {count.faults, count.faults + 1}
          /\ \/ enc'.pc = "waitIdle" /\ comp'.state = comp.state /\ comp'.command = "idle"
             \/ enc'.pc = "exit" /\ comp' = comp
      BY <1>0, <1>3 DEF Setup, Go, Exit, Fault, TypeOK, Callers, Components
    <2>3. Posts'
      BY <1>0, <1>3, <2>2 DEF Setup, Posts, Pending, Due, Is, Executing, Running
    <2> QED
      BY <2>1, <2>3
  <1>4. CASE Config
    <2>1. TypeOK'
      BY <1>4, GoTypes DEF Config, Go, TypeOK, Pcs
    <2>2. /\ enc'.semaphore = enc.semaphore /\ count' = count
          /\ \/ enc'.pc = "exit" /\ comp.state = "invalid" /\ comp' = comp
             \/ /\ enc'.pc = "waitExecuting" /\ comp.state # "invalid"
                /\ comp'.state = comp.state /\ comp'.command = "executing"
      BY <1>4 DEF Config, Go, Exit, TypeOK, Callers, Components
    <2>3. Posts'
      BY <1>0, <1>4, <2>2 DEF Config, Posts, Pending, Due, Is, Executing, Running
    <2> QED
      BY <2>1, <2>3
  <1>5. CASE Deinit
    <2>1. TypeOK'
      BY <1>5, GoTypes DEF Deinit, Go, TypeOK, Pcs
    <2>2. /\ enc'.semaphore = enc.semaphore /\ count' = count
          /\ \/ enc'.pc = "top" /\ comp' = comp
             \/ enc'.pc = "exit" /\ comp' = comp /\ (comp.state # "executing" \/ comp.command = "idle")
             \/ /\ enc'.pc = "waitStopped" /\ comp.state = "executing" /\ comp.command # "idle"
                /\ comp'.state = comp.state /\ comp'.command = "idle"
      BY <1>5 DEF Deinit, Go, Exit, TypeOK, Callers, Components
    <2>3. Posts'
      BY <1>0, <1>5, <2>2 DEF Deinit, Posts, Pending, Due, Is, Executing, Running
    <2> QED
      BY <2>1, <2>3
  <1>6. CASE Fill \/ Top \/ Select \/ Event \/ Input \/ Output
    <2>1. TypeOK'
      <3>1. CASE Fill \/ Top \/ Event \/ Input
        <4>1. enc' \in Callers
          BY <3>1, GoTypes DEF Fill, Top, Event, Input, Go, Pcs
        <4>2. comp' \in Components
          BY <3>1 DEF Fill, Top, Event, Input, TypeOK, Components
        <4>3. pipe' \in [event : BOOLEAN, input : BOOLEAN, output : {"none", "image", "empty"}]
          BY <3>1 DEF Fill, Top, Event, Input, TypeOK
        <4> QED
          BY <3>1, <4>1, <4>2, <4>3 DEF Fill, Top, Event, Input, TypeOK
      <3>2. CASE Select
        BY <3>2 DEF Select, TypeOK, Callers, Pcs
      <3>3. CASE Output
        <4>1. enc' \in Callers
          <5>1. CASE "output" \in enc.ready
            <6>1. PICK b \in BOOLEAN : enc' = [enc EXCEPT !.pc = "deinit", !.size = b]
              BY <3>3, <5>1 DEF Output
            <6> QED
              BY <6>1 DEF TypeOK, Callers, Pcs
          <5>2. CASE "output" \notin enc.ready
            BY <3>3, <5>2, GoTypes DEF Output, Go, Pcs
          <5> QED
            BY <5>1, <5>2
        <4> QED
          BY <3>3, <4>1 DEF Output, TypeOK
      <3> QED
        BY <1>6, <3>1, <3>2, <3>3
    <2>2. /\ enc'.semaphore = enc.semaphore /\ count' = count
          /\ comp'.state = comp.state /\ comp'.command = comp.command
      BY <1>6 DEF Fill, Top, Select, Event, Input, Output, Go, TypeOK, Callers, Components
    <2>3. enc.pc \in Running
      BY <1>6 DEF Fill, Top, Select, Event, Input, Output, Running
    <2>4. enc'.pc \in Running \/ (enc'.pc = "exit" /\ comp.state = "idle")
      BY <1>6 DEF Fill, Top, Select, Event, Input, Output, Go, Running, TypeOK, Callers
    <2>5. Posts'
      BY <1>0, <2>2, <2>3, <2>4 DEF Posts, Pending, Due, Is, Executing, Running
    <2> QED
      BY <2>1, <2>5
  <1>7. CASE Cleanup \/ FreeHandle
    <2>1. TypeOK'
      BY <1>7 DEF Cleanup, FreeHandle, Go, TypeOK, Callers, Pcs
    <2>2. /\ enc'.semaphore = enc.semaphore /\ UNCHANGED <<comp, count>>
          /\ enc.pc \in {"exit", "free"} /\ enc'.pc \in {"free", "idle", "crashed"}
      BY <1>7 DEF Cleanup, FreeHandle, Go, TypeOK, Callers
    <2>3. Posts'
      BY <1>0, <2>2 DEF Posts, Pending, Due, Is, Executing, Running
    <2> QED
      BY <2>1, <2>3
  <1>8. CASE ResourcesAcquired
    BY <1>8 DEF ResourcesAcquired, TypeOK, Posts, Pending, Due, Is, Executing
  <1> QED
    BY <1>1, <1>2, <1>3, <1>4, <1>5, <1>6, <1>7, <1>8 DEF CallerStep

LEMMA InvAlways == Spec => []Inv
  <1>1. Init => Inv
    BY EncoderAssumption
       DEF Init, Inv, TypeOK, Posts, Pending, Due, Is, Executing, Running, Callers, Components,
           States, Pcs, Loaded, EmptyPipes
  <1>2. Inv /\ UNCHANGED vars => Inv'
    BY DEF vars, Inv, TypeOK, Posts, Pending, Due, Is, Executing
  <1>3. Inv /\ [Next]_vars => Inv'
    BY <1>2, ComponentInv, CallerInv DEF Next
  <1> QED
    BY <1>1, <1>3, PTL DEF Spec

(* Whatever fails, and how often: types, and the posts that lie in the       *)
(* semaphore are those of the faults and two more at most, so that they do   *)
(* not pile up from state to state.                                          *)
THEOREM TypeCorrect == Spec => []TypeOK
  BY InvAlways, PTL DEF Inv

-----------------------------------------------------------------------------
(* The size. In a picture during which nothing fails, and which finds        *)
(* DEINIT_FLAG as the program starts, the component is where the caller      *)
(* wants it, so that it returns no buffer before it has made an image, and   *)
(* the flag is set by the arrival of the image only.                         *)
Undisturbed == enc.fresh /\ ~enc.fault /\ enc.pc \notin {"idle", "crashed"}

Stopping == {"waitStopped", "exit", "free"}

Delivers ==
  Undisturbed =>
    /\ enc.pc = "waitIdle" => Is("loaded", "idle") \/ Is("idle", "none")
    /\ enc.pc = "config" => Is("idle", "none")
    /\ enc.pc = "waitExecuting" => Is("idle", "executing") \/ Executing
    /\ enc.pc \in Running => Executing
    /\ comp.state # "invalid"
    /\ enc.pc \in {"exit", "free"} => comp.state = "idle"
    /\ enc.pc \notin Stopping => pipe.output # "empty"
    /\ "output" \in enc.ready /\ enc.pc \in {"event", "waitInvalid", "input", "output"}
         => pipe.output = "image"
    /\ flags.DEINIT_FLAG => enc.pc \in Stopping \cup {"deinit"} /\ enc.size
    /\ enc.pc \in Stopping => enc.size

LEMMA ComponentDelivers ==
  ASSUME Inv, Delivers, ComponentStep \/ ErrorFatal \/ ErrorPreempted \/ ErrorReported
  PROVE  Delivers'
  <1> USE DEF Inv
  <1>1. CASE ErrorFatal \/ ErrorPreempted \/ ErrorReported
    <2>1. enc'.fault
      BY <1>1, PostedTypes DEF ErrorFatal, ErrorPreempted, ErrorReported, TypeOK, Callers
    <2> QED
      BY <2>1 DEF Delivers, Undisturbed
  <1>2. CASE EmptyBufferDone \/ FillBufferDone
    <2>1. /\ UNCHANGED <<flags, enc>> /\ comp'.state = comp.state /\ comp'.command = comp.command
          /\ pipe'.output \in {pipe.output, "image"}
      BY <1>2 DEF EmptyBufferDone, FillBufferDone, TypeOK, Components
    <2> QED
      BY <2>1 DEF Delivers, Undisturbed, Is, Executing
  <1>3. CASE ReturnOutput
    <2>1. /\ UNCHANGED <<flags, enc>> /\ comp'.state = comp.state /\ comp'.command = comp.command
          /\ comp.state = "executing" /\ comp.command = "idle"
          /\ enc.pc \notin {"idle", "setup", "crashed"}
      BY <1>3 DEF ReturnOutput, HasHandle, TypeOK, Components
    <2>2. Undisturbed => enc.pc \in Stopping
      BY <2>1 DEF Delivers, Undisturbed, Is, Executing, Stopping, Running, TypeOK, Callers, Pcs
    <2> QED
      BY <2>1, <2>2 DEF Delivers, Undisturbed, Is, Executing, Stopping
  <1>4. CASE CmdComplete
    <2>1. /\ UNCHANGED <<flags, pipe>> /\ enc' = Posted
          /\ comp'.state = comp.command /\ comp'.command = "none"
          /\ comp.command # "none" /\ enc.pc \notin {"idle", "setup", "crashed"}
      BY <1>4 DEF CmdComplete, HasHandle, TypeOK, Components
    <2>2. \/ enc'.pc = "crashed"
          \/ /\ enc'.pc = enc.pc /\ enc'.ready = enc.ready /\ enc'.size = enc.size
             /\ enc'.fresh = enc.fresh /\ enc'.fault = enc.fault
      BY <2>1, PostedTypes DEF Posted, TypeOK, Callers
    <2> QED
      BY <2>1, <2>2 DEF Delivers, Undisturbed, Is, Executing, Stopping, Running, Posts,
                        TypeOK, Components
  <1> QED
    BY <1>1, <1>2, <1>3, <1>4 DEF ComponentStep

LEMMA CallerDelivers ==
  ASSUME Inv, Delivers, Encode \/ CallerStep \/ ResourcesAcquired
  PROVE  Delivers'
  <1> USE DEF Inv
  <1>1. CASE WaitIdle \/ WaitExecuting \/ WaitPreempted \/ WaitInvalid \/ WaitStopped
    <2>1. UNCHANGED <<flags, pipe, comp>>
      BY <1>1 DEF WaitIdle, WaitExecuting, WaitPreempted, WaitInvalid, WaitStopped, WaitForState
    <2>2. /\ enc'.ready = enc.ready /\ enc'.size = enc.size
          /\ enc'.fresh = enc.fresh /\ enc'.fault = enc.fault
      BY <1>1 DEF WaitIdle, WaitExecuting, WaitPreempted, WaitInvalid, WaitStopped, WaitForState,
                  TypeOK, Callers
    <2>3. \/ enc'.pc = enc.pc
          \/ comp.state = "invalid" /\ enc.pc \notin {"idle", "crashed"}
          \/ enc.pc = "waitIdle" /\ comp.state = "idle" /\ enc'.pc = "config"
          \/ enc.pc = "waitExecuting" /\ comp.state = "executing" /\ enc'.pc = "fill"
          \/ enc.pc \in Running /\ comp.state = "idle"
          \/ enc.pc = "waitStopped" /\ comp.state = "idle" /\ enc'.pc = "exit"
      BY <1>1 DEF WaitIdle, WaitExecuting, WaitPreempted, WaitInvalid, WaitStopped,
                  WaitForState, TypeOK, Callers, Running
    <2> QED
      BY <2>1, <2>2, <2>3 DEF Delivers, Undisturbed, Is, Executing, Stopping, Running, Posts
  <1>2. CASE Encode
    BY <1>2 DEF Encode, Loaded, EmptyPipes, Delivers, Undisturbed, Is, Executing, Stopping, Running
  <1>3. CASE Setup
    <2>1. \/ enc'.fault
          \/ /\ enc'.pc = "waitIdle" /\ enc'.ready = enc.ready /\ enc'.size = enc.size
             /\ enc'.fresh = enc.fresh /\ enc'.fault = enc.fault
             /\ comp'.state = comp.state /\ comp'.command = "idle"
      BY <1>3 DEF Setup, Go, Exit, TypeOK, Callers, Components
    <2> QED
      BY <1>3, <2>1 DEF Setup, Delivers, Undisturbed, Is, Executing, Stopping, Running, Posts
  <1>4. CASE Config \/ Deinit
    <2>1. /\ UNCHANGED <<flags, pipe>> /\ enc'.ready = enc.ready /\ enc'.size = enc.size
          /\ enc'.fresh = enc.fresh /\ enc'.fault = enc.fault
          /\ comp'.state = comp.state
      <3>1. enc' = Exit \/ \E pc : enc' = [enc EXCEPT !.pc = pc]
        BY <1>4 DEF Config, Deinit, Go
      <3>2. comp' = comp \/ \E c : comp' = [comp EXCEPT !.command = c]
        BY <1>4 DEF Config, Deinit
      <3>3. UNCHANGED <<flags, pipe>>
        BY <1>4 DEF Config, Deinit
      <3> QED
        BY <3>1, <3>2, <3>3 DEF Exit, TypeOK, Callers, Components
    <2>2. CASE Config
      <3>1. \/ comp.state = "invalid"
            \/ enc'.pc = "waitExecuting" /\ comp'.command = "executing"
        BY <2>2 DEF Config, Go, TypeOK, Callers, Components
      <3> QED
        BY <2>1, <2>2, <3>1
           DEF Config, Delivers, Undisturbed, Is, Executing, Stopping, Running
    <2>3. CASE Deinit
      <3>1. \/ ~flags.DEINIT_FLAG /\ enc'.pc = "top" /\ comp' = comp
            \/ comp.state # "executing" \/ comp.command = "idle"
            \/ /\ flags.DEINIT_FLAG /\ enc'.pc = "waitStopped"
               /\ comp'.command = "idle"
        BY <2>3 DEF Deinit, Go, TypeOK, Callers, Components
      <3> QED
        BY <2>1, <2>3, <3>1
           DEF Deinit, Delivers, Undisturbed, Is, Executing, Stopping, Running
    <2> QED
      BY <1>4, <2>2, <2>3
  <1>5. CASE Fill \/ Top \/ Event \/ Input
    <2>1. /\ flags' = flags /\ pipe'.output = pipe.output /\ enc'.ready = enc.ready
          /\ enc'.size = enc.size /\ enc'.fresh = enc.fresh /\ enc'.fault = enc.fault
          /\ comp'.state = comp.state /\ comp'.command = comp.command
      <3>1. flags' = flags /\ \E pc : enc' = [enc EXCEPT !.pc = pc]
        BY <1>5 DEF Fill, Top, Event, Input, Go
      <3>2. pipe'.output = pipe.output
        BY <1>5 DEF Fill, Top, Event, Input, TypeOK
      <3>3. comp'.state = comp.state /\ comp'.command = comp.command
        BY <1>5 DEF Fill, Top, Event, Input, TypeOK, Components
      <3> QED
        BY <3>1, <3>2, <3>3 DEF TypeOK, Callers
    <2>2. /\ enc.pc \in Running \ {"deinit"}
          /\ \/ comp.state = "idle"
             \/ enc.pc \in {"event", "input"} /\ enc'.pc \in {"waitInvalid", "input", "output"}
             \/ enc'.pc \in {"top", "waitPreempted", "select"}
      <3>1. CASE Fill \/ Top
        <4>1. PICK pc \in {"exit", "top", "waitPreempted", "select"} :
                /\ enc' = [enc EXCEPT !.pc = pc]
                /\ pc = "exit" => comp.state = "idle"
          BY <3>1 DEF Fill, Top, Go
        <4>2. enc.pc \in {"fill", "top"}
          BY <3>1 DEF Fill, Top
        <4>3. enc'.pc = pc
          BY <4>1 DEF TypeOK, Callers
        <4> QED
          BY <4>1, <4>2, <4>3 DEF Running
      <3>2. CASE Event \/ Input
        BY <3>2 DEF Event, Input, Go, TypeOK, Callers, Running
      <3> QED
        BY <1>5, <3>1, <3>2
    <2> QED
      BY <2>1, <2>2 DEF Delivers, Undisturbed, Is, Executing, Stopping, Running
  <1>6. CASE Select
    <2>1. /\ UNCHANGED <<flags, pipe, comp>> /\ enc.pc = "select" /\ enc'.pc = "event"
          /\ enc'.size = enc.size /\ enc'.fresh = enc.fresh /\ enc'.fault = enc.fault
          /\ "output" \in enc'.ready => pipe.output # "none"
      BY <1>6 DEF Select, TypeOK, Callers
    <2> QED
      BY <2>1 DEF Delivers, Undisturbed, Is, Executing, Stopping, Running, TypeOK
  <1>7. CASE Output
    <2>1. /\ comp' = comp /\ enc.pc = "output" /\ enc'.pc = "deinit"
          /\ enc'.fresh = enc.fresh /\ enc'.fault = enc.fault
          /\ \/ "output" \in enc.ready /\ (enc'.size <=> pipe.output = "image") /\ pipe'.output = "none"
             \/ UNCHANGED <<pipe, flags>>
      BY <1>7 DEF Output, Go, TypeOK, Callers
    <2> QED
      BY <2>1 DEF Delivers, Undisturbed, Is, Executing, Stopping, Running
  <1>8. CASE Cleanup \/ FreeHandle
    <2>1. /\ UNCHANGED <<flags, pipe, comp>> /\ enc'.ready = enc.ready /\ enc'.size = enc.size
          /\ enc'.fresh = enc.fresh /\ enc'.fault = enc.fault
          /\ \/ enc.pc = "exit" /\ enc'.pc = "free"
             \/ enc'.pc \in {"crashed", "idle"}
      BY <1>8 DEF Cleanup, FreeHandle, Go, TypeOK, Callers
    <2> QED
      BY <2>1 DEF Delivers, Undisturbed, Is, Executing, Stopping, Running
  <1>9. CASE ResourcesAcquired
    <2>1. UNCHANGED <<enc, pipe, comp>> /\ flags'.DEINIT_FLAG = flags.DEINIT_FLAG
      BY <1>9 DEF ResourcesAcquired, TypeOK
    <2> QED
      BY <2>1 DEF Delivers, Undisturbed, Is, Executing
  <1> QED
    BY <1>1, <1>2, <1>3, <1>4, <1>5, <1>6, <1>7, <1>8, <1>9 DEF CallerStep

(* For any number of pictures, and any faults in those before and after: the *)
(* size encodeImage returns for a picture during which nothing failed is     *)
(* that of an image, if the picture found DEINIT_FLAG unset.                 *)
THEOREM SizeIsTheImages == Spec => []SizeIsDelivered
  <1>1. Init => Delivers
    BY DEF Init, Delivers, Undisturbed
  <1>2. Inv /\ Delivers /\ [Next]_vars => Delivers'
    <2>1. Delivers /\ UNCHANGED vars => Delivers'
      BY DEF vars, Delivers, Undisturbed, Is, Executing
    <2> QED
      BY <2>1, ComponentDelivers, CallerDelivers DEF Next
  <1>3. Delivers => SizeIsDelivered
    BY DEF Delivers, Undisturbed, Stopping, SizeIsDelivered
  <1> QED
    BY <1>1, <1>2, <1>3, InvAlways, PTL DEF Spec

=============================================================================
